---- MODULE Spec2Model ----
(***************************************************************************)
(* Model of the Kid Fax pollers (kidfax/sms_poller.py and                  *)
(* kidfax/telegram_poller.py): the poll loop, the seen ledger and its      *)
(* state file, the printer handle, and the message sources they poll.      *)
(***************************************************************************)
EXTENDS Integers, Sequences, FiniteSets, TLC

\* ---------------------------------------------------------------- bounds
MaxMsgs == 2            \* messages that arrive at the source in one behaviour
MaxRestarts == 1        \* process restarts in one behaviour
MaxChars == 2           \* largest SMS_CHAR_LIMIT of a MessageComposer
MaxText == 6            \* characters of a message body given to _wrap_text
MaxSent == 2            \* send_sms calls of one interactive_loop

\* --------------------------------------------- configurations explored
StateLimits == {0, 1, 2}   \* values of KIDFAX_STATE_LIMIT
FetchLimits == {1, 2}      \* values of TWILIO_FETCH_LIMIT

\* ------------------------------------------------------------ vocabulary
Pollers == {"sms", "tg"}
\* sender ids are 1 and -1: phone numbers for SMS, chat ids for the chat bot
\* (a group chat has a negative id)
\* the chat bot's getUpdates has no FETCH_LIMIT; it returns what is pending
NoLimit == 0
\* what the ALLOWLIST environment variable may name
AllowlistSettings(p) == IF p = "sms" THEN {{}, {1}} ELSE {{}, {1}, {-1}}
\* kind "msg": an inbound SMS / an update carrying a message
\* kind "other": an outbound SMS / an update without a 'message' key
Shapes == {[from_ |-> 1, kind |-> "msg"], [from_ |-> -1, kind |-> "msg"],
           [from_ |-> 1, kind |-> "other"]}
None == 0               \* Python None for last_update_id (ids start at 1)
NoEvent == [op |-> "none", id |-> 0, n |-> 0]

VARIABLES
    poller,          \* which poller this process is
    MAX_STATE,       \* sms_poller.py:50 / telegram_poller.py:64
    FETCH_LIMIT,     \* sms_poller.py:51
    ALLOWLIST,       \* sms_poller.py:48 / telegram_poller.py:62 (parsed set)
    allowlist_env,   \* the ids named by the ALLOWLIST setting
    inbox,           \* the source: all messages so far, in arrival order
    tg_confirmed,    \* chat-bot server: updates with id <= this are confirmed
    STATE_FILE,      \* the state file on disk
    pc,              \* position of the process in poll_loop
    printer,         \* "None" or "Handle"
    seen_order, seen,
    last_update_id,
    new_messages,    \* the rest of the batch being processed
    printed_now, state_dirty,
    restarts,        \* restarts so far
    written,         \* observer: ids whose receipt has been written in full
    retry,           \* observer: the id whose first write failed and that has
                     \*   not been written since (0: none)
    persisted,       \* observer: ids ever held by a written state file
    batch_ids,       \* observer: ids of the batch as it was fetched
    interrupted,     \* observer: the authorized messages of batches that a
                     \*   crash interrupted, until their receipt is written
    fetch_failed,    \* observer: a fetch has failed, and since then the
                     \*   process has neither slept nor fetched again
    ev               \* observer: what the last step of the process did (op),
                     \*   to which message (id); n is the number of ids a save
                     \*   evicted, and 1 on the end of a cycle whose open()
                     \*   failed and on the open() attempt that follows it

config == <<poller, MAX_STATE, FETCH_LIMIT, ALLOWLIST, allowlist_env>>
source == <<inbox, tg_confirmed>>
memory == <<printer, seen_order, seen, last_update_id, new_messages,
            printed_now, state_dirty>>
observer == <<written, retry, persisted, batch_ids, interrupted, fetch_failed>>
pollers == <<config, source, STATE_FILE, pc, memory, restarts, observer, ev>>

\* the components that are followed in specifications of their own
VARIABLES
    contacts,            \* keyboard_input.py:201 MessageComposer.contacts
    char_limit,          \* keyboard_input.py:203
    selected_recipient,  \* keyboard_input.py:206 (None: no recipient)
    selected_number,     \* keyboard_input.py:207
    message_buffer,      \* keyboard_input.py:208
    fkey_map,            \* keyboard_input.py:202
    returned,            \* the last MessageComposer call: its name, its
                         \*   argument and the value it returned
    body,                \* the text given to _wrap_text
    LINE_WIDTH,          \* sms_poller.py:23 / telegram_poller.py:26
    lines,               \* what _wrap_text returned (<<>>: not called yet)
    cuts,                \* observer: for each returned line, the paragraph
                         \*   it was cut from and where
    CONTACTS,            \* sms_poller.py:47 / telegram_poller.py:61, as the
                         \*   (name, id) pairs of the dict in their order
    sender_label,        \* what _contact_label returned
    last_sender,         \* sms_poller.py:182 / telegram_poller.py:347
    avatar_file,         \* the avatar lookup and what becomes of the image
    photo,               \* the update's photo and what becomes of it
    cutter,              \* whether printer.cut() works
    directives,          \* what the printer has been sent, in order
    receipt,             \* how the print call ended
    epd,                 \* the display handle of init_display(), or "None"
    displayed,           \* the arguments of the last render_polling_status
    stage,               \* how far the loop body is with the current message
    stages,              \* observer: what the current cycle has done so far
    PRINTER_DRIVER,      \* printer.py:49 what _printer_backend returns
    ALLOW_DUMMY,         \* sms_poller.py:24 / telegram_poller.py:27
    device,              \* whether connecting to the backend works now
    opened,              \* what the last get_printer call returned
    listening,           \* the keyboard listener runs (ESC stops it)
    screen,              \* the last screen the loop asked the display for
    outbox,              \* the send_sms calls so far, and how each ended
    dispatched,          \* observer: the buffer's message has been handed to
                         \*   send_sms
    key,                 \* the kind of the key event handled last
    env_file,            \* the lines of the .env file
    response             \* what the last admin request was answered with

composer == <<contacts, fkey_map, char_limit, selected_recipient,
              selected_number, message_buffer, returned>>
wrapper == <<body, LINE_WIDTH, lines, cuts>>
renderer == <<CONTACTS, sender_label, last_sender, avatar_file, photo, cutter,
              directives, receipt>>
cycle == <<epd, displayed, stage, stages>>
opener == <<PRINTER_DRIVER, ALLOW_DUMMY, device, opened>>
keyboard == <<listening, screen, outbox, dispatched, key>>
admin == <<env_file, response>>
further == <<opener, keyboard, admin>>
aside == <<composer, wrapper, renderer, cycle, further>>
vars == <<pollers, aside>>

\* ------------------------------------------------------------- helpers
Range(s) == {s[i] : i \in 1..Len(s)}
Min(a, b) == IF a < b THEN a ELSE b
Max(a, b) == IF a > b THEN a ELSE b
Reverse(s) == [i \in 1..Len(s) |-> s[Len(s) + 1 - i]]
Ids(s) == [i \in 1..Len(s) |-> s[i].id]
\* Python s[-n:] : the last n elements for n > 0; s[-0:] is s[0:], all of s
LastSlice(s, n) ==
    IF n = 0 THEN s
    ELSE SubSeq(s, Max(1, Len(s) - n + 1), Len(s))
\* the newest k entries of s, oldest first
Newest(s, k) == SubSeq(s, Len(s) - k + 1, Len(s))
Count(x, s) == Cardinality({i \in 1..Len(s) : s[i] = x})

\* ------------------------------------------------------- configuration
\* sms_poller.py:48 keeps every non-empty item of the setting;
\* telegram_poller.py:62 keeps the items for which str.isdigit() holds,
\* which is false for "-1"
ParseAllowlist(p, setting) ==
    IF p = "sms" THEN setting ELSE {x \in setting : x >= 0}

\* ------------------------------------------------------- the state file
\* A file is absent or has a text of one of these forms:
\*   "array"        {"<key>": [id, ...]}, what _save_state writes
\*   "unparseable"  not JSON: empty, cut short, or damaged
\*   "nonobject"    JSON, but not an object (a bare list, a number)
\*   "scalar"       {"<key>": null} or {"<key>": 5}
\*   "nested"       {"<key>": [[...], ...]}, items that cannot be hashed
\*   "string"       {"<key>": "..."}; ids holds its characters
Absent == [exists |-> FALSE, form |-> "none", key |-> "", ids |-> <<>>]
StateKey(p) == IF p = "sms" THEN "seen_sids" ELSE "seen_update_ids"
Other(p) == IF p = "sms" THEN "tg" ELSE "sms"

\* _load_state: [] when the file is missing; [] from the except clause when
\* json.loads, data.get, list(order) or set(order) raises; [] when the key
\* is missing; else list(order), which for a string is its characters
_load_state(p, f) ==
    IF ~f.exists THEN <<>>
    ELSE IF f.form \in {"unparseable", "nonobject"} THEN <<>>
    ELSE IF f.key # StateKey(p) THEN <<>>
    ELSE IF f.form \in {"scalar", "nested"} THEN <<>>
    ELSE f.ids

\* variant: the oldest MAX_STATE entries are written
_save_state_Oldest(p, order, limit) ==
    [exists |-> TRUE, form |-> "array", key |-> StateKey(p),
     ids |-> SubSeq(order, 1, Min(Len(order), limit))]

\* _save_state: {"<key>": order[-MAX_STATE:]}
_save_state(p, order, limit) ==
    [exists |-> TRUE, form |-> "array", key |-> StateKey(p),
     ids |-> LastSlice(order, limit)]

\* Path.write_text opens the file with mode "w", which empties it, and then
\* writes the text: until the text is complete the file holds a prefix of it
Truncated == [exists |-> TRUE, form |-> "unparseable", key |-> "", ids |-> <<>>]

\* variant: the overflow is never popped
Evict_NoPop(order, limit) == order

\* poll_loop, "if overflow > 0: pop(0) overflow times"
Evict(order, limit) ==
    IF Len(order) - limit > 0
    THEN SubSeq(order, Len(order) - limit + 1, Len(order))
    ELSE order
\* variant: the popped ids are not discarded from the set
EvictSet_NoDiscard(set, order, limit) == set

\* poll_loop, "seen.discard(oldest)" for each popped id
EvictSet(set, order, limit) ==
    IF Len(order) - limit > 0
    THEN set \ {order[i] : i \in 1..(Len(order) - limit)}
    ELSE set

\* ------------------------------------------------------------ the source
\* client.messages.list(limit=FETCH_LIMIT): the newest FETCH_LIMIT messages,
\* newest first
TwilioList(box, limit) ==
    Reverse(SubSeq(box, Max(1, Len(box) - limit + 1), Len(box)))

\* variant: the window is not reversed
_fetch_messages_NewestFirst(box, limit, seenSet) ==
    SelectSeq(TwilioList(box, limit),
              LAMBDA m : m.id \notin seenSet /\ m.kind = "msg")

\* _fetch_messages: reversed(messages), without the seen and the non-inbound
_fetch_messages(box, limit, seenSet) ==
    SelectSeq(Reverse(TwilioList(box, limit)),
              LAMBDA m : m.id \notin seenSet /\ m.kind = "msg")

\* poll_loop: offset = last_update_id + 1 if last_update_id else None
Offset(last) == IF last # None THEN last + 1 ELSE None

\* getUpdates on the server: an offset confirms every update below it; the
\* reply holds the unconfirmed updates from the offset on
TgConfirm(confirmed, offset) ==
    IF offset = None THEN confirmed ELSE Max(confirmed, offset - 1)
TgReply(box, confirmed, offset) ==
    SelectSeq(box, LAMBDA m : m.id > TgConfirm(confirmed, offset))

\* variant: the allowlist is not consulted
_should_print_Any(sender) == TRUE

\* _should_print / "if ALLOWLIST and chat_id not in ALLOWLIST"
_should_print(sender) ==
    IF ALLOWLIST = {} THEN TRUE ELSE sender \in ALLOWLIST

\* an inbound message whose sender passes the allowlist test of the code
Authorized(m) == m.kind = "msg" /\ _should_print(m.from_)

\* ------------------------------------------------------------------ Init
NoCall == [op |-> "none", arg |-> "", value |-> FALSE]
\* no MessageComposer has been constructed
NoComposer ==
    /\ contacts = <<>>
    /\ fkey_map = <<>>
    /\ char_limit = 0
    /\ selected_recipient = None
    /\ selected_number = None
    /\ message_buffer = <<>>
    /\ returned = NoCall

\* nothing has been given to _wrap_text
NoWrap ==
    /\ body = <<>>
    /\ LINE_WIDTH = 1
    /\ lines = <<>>
    /\ cuts = <<>>

NoLabel == [name |-> "", id |-> 0]
\* no receipt is followed directive by directive
NoReceipt ==
    /\ CONTACTS = <<>>
    /\ sender_label = NoLabel
    /\ last_sender = NoLabel
    /\ avatar_file = "disabled"
    /\ photo = "none"
    /\ cutter = "ok"
    /\ directives = <<>>
    /\ receipt = "none"

NoShow == [count |-> 0, label |-> NoLabel]
\* no cycle is followed stage by stage
NoCycle ==
    /\ epd = "None"
    /\ displayed = NoShow
    /\ stage = "next"
    /\ stages = <<>>

\* get_printer is not followed into the backends
NoOpener ==
    /\ PRINTER_DRIVER = "usb"
    /\ ALLOW_DUMMY = FALSE
    /\ device = "up"
    /\ opened = "None"

\* no interactive_loop runs
NoKeyboard ==
    /\ listening = FALSE
    /\ screen = "none"
    /\ outbox = <<>>
    /\ dispatched = FALSE
    /\ key = "none"

NoResponse ==
    [op |-> "none", status |-> 0, error |-> "", contacts |-> <<>>,
     allowlist |-> {}]
\* no admin request is followed
NoAdmin ==
    /\ env_file = <<>>
    /\ response = NoResponse

NoFurther ==
    /\ NoOpener
    /\ NoKeyboard
    /\ NoAdmin

Init ==
    /\ poller \in Pollers
    /\ MAX_STATE \in StateLimits
    /\ FETCH_LIMIT \in (IF poller = "sms" THEN FetchLimits ELSE {NoLimit})
    /\ allowlist_env \in AllowlistSettings(poller)
    /\ ALLOWLIST = ParseAllowlist(poller, allowlist_env)
    /\ inbox = <<>>
    /\ tg_confirmed = 0
    /\ STATE_FILE = Absent
    /\ pc = "boot"
    /\ printer = "None"
    /\ seen_order = <<>>
    /\ seen = {}
    /\ last_update_id = None
    /\ new_messages = <<>>
    /\ printed_now = 0
    /\ state_dirty = FALSE
    /\ restarts = 0
    /\ written = {}
    /\ retry = 0
    /\ persisted = {}
    /\ batch_ids = <<>>
    /\ interrupted = {}
    /\ fetch_failed = FALSE
    /\ ev = NoEvent
    /\ NoComposer
    /\ NoWrap
    /\ NoReceipt
    /\ NoCycle
    /\ NoFurther

\* --------------------------------------------------------- environment
\* a message reaches the source
Arrive ==
    /\ Len(inbox) < MaxMsgs
    /\ \E sh \in Shapes :
          inbox' = Append(inbox, [id |-> Len(inbox) + 1, from_ |-> sh.from_,
                                  kind |-> sh.kind])
    /\ UNCHANGED <<aside, config, tg_confirmed, STATE_FILE, pc, memory, restarts, observer, ev>>

\* ------------------------------------------------------------ poll_loop
\* poll_loop entry: seen_order, seen = _load_state(); printer = None
Load ==
    /\ pc = "boot"
    /\ seen_order' = _load_state(poller, STATE_FILE)
    /\ seen' = Range(_load_state(poller, STATE_FILE))
    /\ last_update_id' = None
    /\ printer' = "None"
    /\ new_messages' = <<>>
    /\ printed_now' = 0
    /\ state_dirty' = FALSE
    /\ pc' = "top"
    /\ ev' = [op |-> "load", id |-> 0, n |-> 0]
    /\ UNCHANGED <<aside, config, source, STATE_FILE, restarts, observer>>

\* 1 when the cycle before this one ended in the backoff of a failed open()
AfterFailedOpen == IF ev.op \in {"sleep", "pass"} THEN ev.n ELSE 0

\* variant: the handle that get_printer returned is not kept
OpenOk_NotKept ==
    /\ pc = "top"
    /\ printer = "None"
    /\ printer' = "None"
    /\ ev' = [op |-> "open_ok", id |-> 0, n |-> AfterFailedOpen]
    /\ UNCHANGED <<aside, config, source, STATE_FILE, pc, seen_order, seen, last_update_id,
                   new_messages, printed_now, state_dirty, restarts, observer>>

\* get_printer returned a handle (poll_loop, "if printer is None")
OpenOk ==
    /\ pc = "top"
    /\ printer = "None"
    /\ printer' = "Handle"
    /\ ev' = [op |-> "open_ok", id |-> 0, n |-> AfterFailedOpen]
    /\ UNCHANGED <<aside, config, source, STATE_FILE, pc, seen_order, seen, last_update_id,
                   new_messages, printed_now, state_dirty, restarts, observer>>

\* variant: no time.sleep(10) after get_printer returned None
OpenFail_NoBackoff ==
    /\ pc = "top"
    /\ printer = "None"
    /\ pc' = "finally"
    /\ ev' = [op |-> "open_fail", id |-> 0, n |-> AfterFailedOpen]
    /\ UNCHANGED <<aside, config, source, STATE_FILE, memory, restarts, observer>>

\* get_printer returned None: log, time.sleep(10), continue
OpenFail ==
    /\ pc = "top"
    /\ printer = "None"
    /\ pc' = "backoff"
    /\ ev' = [op |-> "open_fail", id |-> 0, n |-> AfterFailedOpen]
    /\ UNCHANGED <<aside, config, source, STATE_FILE, memory, restarts, observer>>

\* the 10 seconds have passed; "continue" inside try runs the finally clause
Backoff ==
    /\ pc = "backoff"
    /\ pc' = "finally"
    /\ fetch_failed' = FALSE
    /\ ev' = [op |-> "backoff", id |-> 0, n |-> 0]
    /\ UNCHANGED <<aside, config, source, STATE_FILE, memory, restarts, written, retry,
                   persisted, batch_ids, interrupted>>

\* variant: the fetch does not wait for a printer handle
SmsFetchOk_NoHandle ==
    /\ poller = "sms"
    /\ pc = "top"
    /\ new_messages' = _fetch_messages(inbox, FETCH_LIMIT, seen)
    /\ batch_ids' = Ids(new_messages')
    /\ printed_now' = 0
    /\ state_dirty' = FALSE
    /\ pc' = "batch"
    /\ fetch_failed' = FALSE
    /\ ev' = [op |-> "fetch_ok", id |-> 0, n |-> 0]
    /\ UNCHANGED <<aside, config, source, STATE_FILE, printer, seen_order, seen,
                   last_update_id, restarts, written, retry, persisted, interrupted>>

\* SMS: new_messages = _fetch_messages(client, twilio_number, seen)
SmsFetchOk ==
    /\ poller = "sms"
    /\ pc = "top"
    /\ printer = "Handle"
    /\ new_messages' = _fetch_messages(inbox, FETCH_LIMIT, seen)
    /\ batch_ids' = Ids(new_messages')
    /\ printed_now' = 0
    /\ state_dirty' = FALSE
    /\ pc' = "batch"
    /\ fetch_failed' = FALSE
    /\ ev' = [op |-> "fetch_ok", id |-> 0, n |-> 0]
    /\ UNCHANGED <<aside, config, source, STATE_FILE, printer, seen_order, seen,
                   last_update_id, restarts, written, retry, persisted, interrupted>>

\* SMS: client.messages.list raises; "except Exception" sets printer = None
SmsFetchFail ==
    /\ poller = "sms"
    /\ pc = "top"
    /\ printer = "Handle"
    /\ printer' = "None"
    /\ pc' = "finally"
    /\ fetch_failed' = TRUE
    /\ ev' = [op |-> "fetch_fail", id |-> 0, n |-> 0]
    /\ UNCHANGED <<aside, config, source, STATE_FILE, seen_order, seen, last_update_id,
                   new_messages, printed_now, state_dirty, restarts, written,
                   retry, persisted, batch_ids, interrupted>>

\* chat bot: updates = _get_updates(bot_token, offset=offset, ...)
TgFetchOk ==
    /\ poller = "tg"
    /\ pc = "top"
    /\ printer = "Handle"
    /\ tg_confirmed' = TgConfirm(tg_confirmed, Offset(last_update_id))
    /\ new_messages' = TgReply(inbox, tg_confirmed, Offset(last_update_id))
    /\ batch_ids' = Ids(new_messages')
    /\ printed_now' = 0
    /\ state_dirty' = FALSE
    /\ pc' = "batch"
    /\ fetch_failed' = FALSE
    /\ ev' = [op |-> "fetch_ok", id |-> 0, n |-> 0]
    /\ UNCHANGED <<aside, config, inbox, STATE_FILE, printer, seen_order, seen,
                   last_update_id, restarts, written, retry, persisted, interrupted>>

\* chat bot: _get_updates catches the error and returns []
TgFetchFail ==
    /\ poller = "tg"
    /\ pc = "top"
    /\ printer = "Handle"
    /\ new_messages' = <<>>
    /\ batch_ids' = <<>>
    /\ printed_now' = 0
    /\ state_dirty' = FALSE
    /\ pc' = "batch"
    /\ fetch_failed' = TRUE
    /\ ev' = [op |-> "fetch_fail", id |-> 0, n |-> 0]
    /\ UNCHANGED <<aside, config, source, STATE_FILE, printer, seen_order, seen,
                   last_update_id, restarts, written, retry, persisted, interrupted>>

\* ------------------------------------------------ the body of the for loop
InBatch == pc = "batch" /\ new_messages # <<>>
Cur == Head(new_messages)

\* variant: the cursor is left where it was
CursorAfter_Stale(last, id) == last

\* chat bot only: last_update_id = update_id, first statement of the body
CursorAfter(last, id) == IF poller = "tg" THEN id ELSE last

\* seen.add(id); seen_order.append(id)
MarkSeenOrder(order, id) == Append(order, id)
MarkSeenSet(set, id) == set \cup {id}

\* variants: the id is recorded before the print call
OrderAfterFailure_Marked(order, id) == Append(order, id)
SetAfterFailure_Marked(set, id) == set \cup {id}

\* a write that raised: the statements after the print call do not run
OrderAfterFailure(order, id) == order
SetAfterFailure(set, id) == set

\* chat bot: "if update_id in seen: continue"
TgSkipSeen ==
    /\ InBatch
    /\ poller = "tg"
    /\ Cur.id \in seen
    /\ last_update_id' = CursorAfter(last_update_id, Cur.id)
    /\ new_messages' = Tail(new_messages)
    /\ ev' = [op |-> "skip_seen", id |-> Cur.id, n |-> 0]
    /\ UNCHANGED <<aside, config, source, STATE_FILE, pc, printer, seen_order, seen,
                   printed_now, state_dirty, restarts, observer>>

\* chat bot: "if not msg_data": recorded without printing
TgNoMessage ==
    /\ InBatch
    /\ poller = "tg"
    /\ Cur.id \notin seen
    /\ Cur.kind = "other"
    /\ last_update_id' = CursorAfter(last_update_id, Cur.id)
    /\ seen' = MarkSeenSet(seen, Cur.id)
    /\ seen_order' = MarkSeenOrder(seen_order, Cur.id)
    /\ state_dirty' = TRUE
    /\ new_messages' = Tail(new_messages)
    /\ ev' = [op |-> "no_message", id |-> Cur.id, n |-> 0]
    /\ UNCHANGED <<aside, config, source, STATE_FILE, pc, printer, printed_now,
                   restarts, observer>>

\* the message reaches the allowlist test (every SMS of the batch does)
Candidate ==
    /\ InBatch
    /\ poller = "tg" => (Cur.id \notin seen /\ Cur.kind = "msg")

\* not in the allowlist: recorded, not printed
Reject ==
    /\ Candidate
    /\ ~_should_print(Cur.from_)
    /\ last_update_id' = CursorAfter(last_update_id, Cur.id)
    /\ seen' = MarkSeenSet(seen, Cur.id)
    /\ seen_order' = MarkSeenOrder(seen_order, Cur.id)
    /\ state_dirty' = TRUE
    /\ new_messages' = Tail(new_messages)
    /\ ev' = [op |-> "reject", id |-> Cur.id, n |-> 0]
    /\ UNCHANGED <<aside, config, source, STATE_FILE, pc, printer, printed_now,
                   restarts, observer>>

\* _print_message / _print_telegram_message returned
PrintOk ==
    /\ Candidate
    /\ _should_print(Cur.from_)
    /\ last_update_id' = CursorAfter(last_update_id, Cur.id)
    /\ written' = written \cup {Cur.id}
    /\ interrupted' = interrupted \ {Cur.id}
    /\ seen' = MarkSeenSet(seen, Cur.id)
    /\ seen_order' = MarkSeenOrder(seen_order, Cur.id)
    /\ printed_now' = printed_now + 1
    /\ state_dirty' = TRUE
    /\ new_messages' = Tail(new_messages)
    /\ retry' = IF retry = Cur.id THEN 0 ELSE retry
    /\ ev' = [op |-> IF retry = Cur.id THEN "retry_ok" ELSE "write_ok",
              id |-> Cur.id, n |-> 0]
    /\ UNCHANGED <<aside, config, source, STATE_FILE, pc, printer, restarts,
                   persisted, batch_ids, fetch_failed>>

\* the print call raised: "except Exception" sets printer = None and the
\* rest of the batch, the display update and the save are skipped
PrintFail ==
    /\ Candidate
    /\ _should_print(Cur.from_)
    /\ last_update_id' = CursorAfter(last_update_id, Cur.id)
    /\ retry' = IF Cur.id \notin written THEN Cur.id ELSE retry
    /\ seen' = SetAfterFailure(seen, Cur.id)
    /\ seen_order' = OrderAfterFailure(seen_order, Cur.id)
    /\ printer' = "None"
    /\ new_messages' = <<>>
    /\ pc' = "finally"
    /\ batch_ids' = <<>>
    /\ ev' = [op |-> "write_fail", id |-> Cur.id, n |-> 0]
    /\ UNCHANGED <<aside, config, source, STATE_FILE, printed_now, state_dirty,
                   restarts, written, persisted, interrupted, fetch_failed>>

\* after the for loop: display update (no state), then
\* "if state_dirty: evict the overflow; _save_state(seen_order)"
EndBatch ==
    /\ pc = "batch"
    /\ new_messages = <<>>
    /\ seen_order' = IF state_dirty THEN Evict(seen_order, MAX_STATE) ELSE seen_order
    /\ seen' = IF state_dirty THEN EvictSet(seen, seen_order, MAX_STATE) ELSE seen
    /\ STATE_FILE' = IF state_dirty
                     THEN _save_state(poller, seen_order', MAX_STATE)
                     ELSE STATE_FILE
    /\ persisted' = IF state_dirty THEN persisted \cup Range(STATE_FILE'.ids)
                    ELSE persisted
    /\ pc' = "finally"
    /\ batch_ids' = <<>>
    /\ ev' = [op |-> IF state_dirty THEN "save" ELSE "idle", id |-> 0,
              n |-> Len(seen_order) - Len(seen_order')]
    /\ UNCHANGED <<aside, config, source, printer, last_update_id, new_messages,
                   printed_now, state_dirty, restarts, written, retry, interrupted,
                   fetch_failed>>

\* SMS finally clause: time.sleep(POLL_SECONDS)
Sleep ==
    /\ poller = "sms"
    /\ pc = "finally"
    /\ pc' = "top"
    /\ fetch_failed' = FALSE
    /\ ev' = [op |-> "sleep", id |-> 0, n |-> IF ev.op = "backoff" THEN 1 ELSE 0]
    /\ UNCHANGED <<aside, config, source, STATE_FILE, memory, restarts, written, retry,
                   persisted, batch_ids, interrupted>>

\* the locals of poll_loop are gone once it has returned or been left
Forgotten ==
    /\ printer' = "None"
    /\ seen_order' = <<>>
    /\ seen' = {}
    /\ last_update_id' = None
    /\ new_messages' = <<>>
    /\ printed_now' = 0
    /\ state_dirty' = FALSE
    /\ batch_ids' = <<>>
    /\ fetch_failed' = FALSE

\* KeyboardInterrupt inside the try body (get_printer, the backoff sleep, the
\* fetch, a print, the save): "except Exception" does not catch it, the rest
\* of the body is skipped and the finally clause runs with it pending
Interrupt ==
    /\ pc \in {"top", "backoff", "batch"}
    /\ pc' = "unwinding"
    /\ new_messages' = <<>>
    /\ batch_ids' = <<>>
    /\ fetch_failed' = FALSE
    /\ ev' = [op |-> "interrupt", id |-> 0, n |-> 0]
    /\ UNCHANGED <<aside, config, source, STATE_FILE, printer, seen_order, seen,
                   last_update_id, printed_now, state_dirty, restarts, written,
                   retry, persisted, interrupted>>

\* SMS finally clause: KeyboardInterrupt during the sleep:
\* _save_state(seen_order); return (which also drops a pending exception)
InterruptSleep ==
    /\ poller = "sms"
    /\ pc \in {"finally", "unwinding"}
    /\ STATE_FILE' = _save_state(poller, seen_order, MAX_STATE)
    /\ persisted' = persisted \cup Range(STATE_FILE'.ids)
    /\ pc' = "exited"
    /\ Forgotten
    /\ ev' = [op |-> "interrupt_save", id |-> 0, n |-> 0]
    /\ UNCHANGED <<aside, config, source, restarts, written, retry, interrupted>>

\* the finally clause (SMS: the sleep, chat bot: pass) ends with the
\* KeyboardInterrupt pending: it leaves poll_loop, main() logs it and returns
Propagate ==
    /\ pc = "unwinding"
    /\ pc' = "exited"
    /\ Forgotten
    /\ ev' = [op |-> "interrupt_exit", id |-> 0, n |-> 0]
    /\ UNCHANGED <<aside, config, source, STATE_FILE, restarts, written, retry,
                   persisted, interrupted>>

\* chat bot finally clause: pass
FinallyPass ==
    /\ poller = "tg"
    /\ pc = "finally"
    /\ pc' = "top"
    /\ ev' = [op |-> "pass", id |-> 0, n |-> IF ev.op = "backoff" THEN 1 ELSE 0]
    /\ UNCHANGED <<aside, config, source, STATE_FILE, memory, restarts, observer>>

\* ------------------------------------------------------ crash and restart
\* the process is killed; what it held in memory is gone
Crash ==
    /\ pc \notin {"down", "exited"}
    /\ restarts < MaxRestarts
    /\ pc' = "down"
    /\ Forgotten
    /\ interrupted' =
          IF pc = "batch"
          THEN interrupted \cup {id \in Range(batch_ids) :
                                    Authorized(inbox[id]) /\ id \notin written}
          ELSE interrupted
    /\ ev' = [op |-> IF pc = "batch" THEN "crash_in_batch" ELSE "crash", id |-> 0, n |-> 0]
    /\ UNCHANGED <<aside, config, source, STATE_FILE, restarts, written, retry, persisted>>

\* the service manager starts poll_loop again
Restart ==
    /\ pc \in {"down", "exited"}
    /\ restarts < MaxRestarts
    /\ restarts' = restarts + 1
    /\ pc' = "boot"
    /\ Forgotten
    /\ ev' = [op |-> "restart", id |-> 0, n |-> 0]
    /\ UNCHANGED <<aside, config, source, STATE_FILE, written, retry, persisted, interrupted>>

Next ==
    \/ Arrive
    \/ Load
    \/ OpenOk
    \/ OpenFail
    \/ Backoff
    \/ SmsFetchOk
    \/ SmsFetchFail
    \/ TgFetchOk
    \/ TgFetchFail
    \/ TgSkipSeen
    \/ TgNoMessage
    \/ Reject
    \/ PrintOk
    \/ PrintFail
    \/ EndBatch
    \/ Sleep
    \/ Interrupt
    \/ InterruptSleep
    \/ Propagate
    \/ FinallyPass
    \/ Crash
    \/ Restart

Spec == Init /\ [][Next]_vars

TypeOK ==
    /\ pc \in {"boot", "top", "backoff", "batch", "finally", "unwinding", "down",
              "exited"}
    /\ printer \in {"None", "Handle"}
    /\ seen \subseteq 1..MaxMsgs
    /\ last_update_id \in 0..MaxMsgs

\* ------------------------------------------------------- the state file
\* StoreSpec follows one poller through _load_state and _save_state alone,
\* over every file it may find at its STATE_FILE path: none, one that either
\* poller has written (both use ~/.kidfax_state.json unless KIDFAX_STATE_FILE
\* is set), or one that is damaged.

\* the ledgers a poller can hold: no id twice
Ledgers ==
    UNION {{o \in [1..n -> 1..MaxMsgs] :
               \A i, j \in 1..n : i # j => o[i] # o[j]} : n \in 0..MaxMsgs}

\* the characters of a string value, written as negative numbers
Strings == {<<>>, <<-1>>, <<-1, -2>>}

FilesOnDisk(limit) ==
    {Absent, Truncated,
     [exists |-> TRUE, form |-> "nonobject", key |-> "", ids |-> <<>>]}
    \cup {[exists |-> TRUE, form |-> f, key |-> StateKey(q), ids |-> <<>>] :
             f \in {"scalar", "nested"}, q \in Pollers}
    \cup {[exists |-> TRUE, form |-> "string", key |-> StateKey(q), ids |-> c] :
             q \in Pollers, c \in Strings}
    \cup {_save_state(q, o, limit) : q \in Pollers, o \in Ledgers}

StoreInit ==
    /\ poller \in Pollers
    /\ MAX_STATE \in StateLimits
    /\ FETCH_LIMIT = NoLimit
    /\ allowlist_env = {}
    /\ ALLOWLIST = {}
    /\ inbox = <<>>
    /\ tg_confirmed = 0
    /\ STATE_FILE \in FilesOnDisk(MAX_STATE)
    /\ pc = "boot"
    /\ printer = "None"
    /\ seen_order = <<>>
    /\ seen = {}
    /\ last_update_id = None
    /\ new_messages = <<>>
    /\ printed_now = 0
    /\ state_dirty = FALSE
    /\ restarts = 0
    /\ written = {}
    /\ retry = 0
    /\ persisted = {}
    /\ batch_ids = <<>>
    /\ interrupted = {}
    /\ fetch_failed = FALSE
    /\ ev = NoEvent
    /\ NoComposer
    /\ NoWrap
    /\ NoReceipt
    /\ NoCycle
    /\ NoFurther

StoreFrame ==
    UNCHANGED <<aside, config, source, printer, last_update_id, new_messages,
                printed_now, state_dirty, restarts, observer>>

\* poll_loop entry: seen_order, seen = _load_state()
StoreLoad ==
    /\ pc = "boot"
    /\ seen_order' = _load_state(poller, STATE_FILE)
    /\ seen' = Range(_load_state(poller, STATE_FILE))
    /\ pc' = "ledger"
    /\ ev' = [op |-> "load", id |-> 0, n |-> 0]
    /\ UNCHANGED STATE_FILE
    /\ StoreFrame

\* seen.add(id); seen_order.append(id), as often as the batch has messages
StoreAppend ==
    /\ pc = "ledger"
    /\ Len(seen_order) < MaxMsgs
    /\ \E id \in (1..MaxMsgs) \ seen :
          /\ seen_order' = MarkSeenOrder(seen_order, id)
          /\ seen' = MarkSeenSet(seen, id)
          /\ ev' = [op |-> "append", id |-> id, n |-> 0]
    /\ UNCHANGED <<STATE_FILE, pc>>
    /\ StoreFrame

\* the end of a batch: the overflow is evicted, then _save_state(seen_order)
StorePersistEvicted ==
    /\ pc = "ledger"
    /\ seen_order' = Evict(seen_order, MAX_STATE)
    /\ seen' = EvictSet(seen, seen_order, MAX_STATE)
    /\ STATE_FILE' = _save_state(poller, seen_order', MAX_STATE)
    /\ pc' = "saved"
    /\ ev' = [op |-> "persist", id |-> 0, n |-> Len(seen_order) - Len(seen_order')]
    /\ StoreFrame

\* the interrupt handler: _save_state(seen_order) with the ledger as it is
StorePersist ==
    /\ pc = "ledger"
    /\ STATE_FILE' = _save_state(poller, seen_order, MAX_STATE)
    /\ pc' = "saved"
    /\ ev' = [op |-> "persist", id |-> 0, n |-> 0]
    /\ UNCHANGED <<seen_order, seen>>
    /\ StoreFrame

\* the process is killed inside write_text, after open(mode "w") has emptied
\* the file and before the text is complete; this is also the file another
\* process reads at that instant
StoreKilledInPersist ==
    /\ pc = "ledger"
    /\ STATE_FILE' = Truncated
    /\ seen_order' = <<>>
    /\ seen' = {}
    /\ pc' = "boot"
    /\ ev' = [op |-> "killed", id |-> 0, n |-> 0]
    /\ StoreFrame

\* the process is started again after a persist: _load_state()
StoreReload ==
    /\ pc = "saved"
    /\ seen_order' = _load_state(poller, STATE_FILE)
    /\ seen' = Range(_load_state(poller, STATE_FILE))
    /\ pc' = "ledger"
    /\ ev' = [op |-> "reload", id |-> 0, n |-> 0]
    /\ UNCHANGED STATE_FILE
    /\ StoreFrame

StoreNext ==
    \/ StoreLoad
    \/ StoreAppend
    \/ StorePersistEvicted
    \/ StorePersist
    \/ StoreKilledInPersist
    \/ StoreReload

StoreSpec == StoreInit /\ [][StoreNext]_vars

\* ------------------------------------------------- the message composer
\* ComposerSpec follows one MessageComposer (keyboard_input.py) through any
\* sequence of calls of its methods.

\* no poller runs
NoPollers ==
    /\ poller = "sms"
    /\ MAX_STATE = 0
    /\ FETCH_LIMIT = NoLimit
    /\ allowlist_env = {}
    /\ ALLOWLIST = {}
    /\ inbox = <<>>
    /\ tg_confirmed = 0
    /\ STATE_FILE = Absent
    /\ pc = "boot"
    /\ printer = "None"
    /\ seen_order = <<>>
    /\ seen = {}
    /\ last_update_id = None
    /\ new_messages = <<>>
    /\ printed_now = 0
    /\ state_dirty = FALSE
    /\ restarts = 0
    /\ written = {}
    /\ retry = 0
    /\ persisted = {}
    /\ batch_ids = <<>>
    /\ interrupted = {}
    /\ fetch_failed = FALSE
    /\ ev = NoEvent

\* contact names are numbered in their alphabetical order; _parse_contacts
\* keeps only entries with a non-empty name and a non-empty number
Directories ==
    {<<>>, [n \in {1} |-> 5551], [n \in {1, 2} |-> 5550 + n],
     [n \in {2, 3} |-> 5552], [n \in 1..13 |-> 5550 + n]}
SMS_CHAR_LIMITS == 0..MaxChars
Chars == {"a", "b"}
FKeyNames == <<"F1", "F2", "F3", "F4", "F5", "F6", "F7", "F8", "F9", "F10",
               "F11", "F12", "F13">>
Keys == Range(FKeyNames)
NoContact == <<>>

RECURSIVE Sorted(_)
Sorted(S) ==
    IF S = {} THEN <<>>
    ELSE LET m == CHOOSE x \in S : \A y \in S : x <= y
         IN  <<m>> \o Sorted(S \ {m})

\* sorted(contacts.keys())[:12], enumerated from F1
map_fkeys_to_contacts(c) ==
    LET contact_names == SubSeq(Sorted(DOMAIN c), 1, Min(12, Cardinality(DOMAIN c)))
    IN  [k \in {FKeyNames[i] : i \in 1..Len(contact_names)} |->
            contact_names[CHOOSE i \in 1..Len(contact_names) : FKeyNames[i] = k]]

get_contact_from_fkey(fkey_name, fmap, c) ==
    IF fkey_name \notin DOMAIN fmap THEN NoContact
    ELSE IF fmap[fkey_name] \notin DOMAIN c THEN NoContact
    ELSE <<fmap[fkey_name], c[fmap[fkey_name]]>>

\* MessageComposer(contacts, SMS_CHAR_LIMIT)
ComposerInit ==
    /\ NoPollers
    /\ NoWrap
    /\ NoReceipt
    /\ NoCycle
    /\ NoFurther
    /\ contacts \in Directories
    /\ fkey_map = map_fkeys_to_contacts(contacts)
    /\ char_limit \in SMS_CHAR_LIMITS
    /\ selected_recipient = None
    /\ selected_number = None
    /\ message_buffer = <<>>
    /\ returned = NoCall

ComposerFrame ==
    UNCHANGED <<pollers, wrapper, renderer, cycle, further, contacts, fkey_map,
                char_limit>>

select_recipient_by_fkey_KeepsBuffer ==
    \E fkey_name \in Keys :
        LET result == get_contact_from_fkey(fkey_name, fkey_map, contacts)
        IN  /\ IF result # NoContact
               THEN /\ selected_recipient' = result[1]
                    /\ selected_number' = result[2]
                    /\ UNCHANGED message_buffer
               ELSE UNCHANGED <<selected_recipient, selected_number, message_buffer>>
            /\ returned' = [op |-> "select_recipient_by_fkey", arg |-> fkey_name,
                            value |-> result # NoContact]
            /\ ComposerFrame

select_recipient_by_fkey ==
    \E fkey_name \in Keys :
        LET result == get_contact_from_fkey(fkey_name, fkey_map, contacts)
        IN  /\ IF result # NoContact
               THEN /\ selected_recipient' = result[1]
                    /\ selected_number' = result[2]
                    /\ message_buffer' = <<>>
               ELSE UNCHANGED <<selected_recipient, selected_number, message_buffer>>
            /\ returned' = [op |-> "select_recipient_by_fkey", arg |-> fkey_name,
                            value |-> result # NoContact]
            /\ ComposerFrame

add_character_NoLimit ==
    \E char \in Chars :
        /\ message_buffer' = Append(message_buffer, char)
        /\ returned' = [op |-> "add_character", arg |-> char, value |-> TRUE]
        /\ UNCHANGED <<selected_recipient, selected_number>>
        /\ ComposerFrame

add_character ==
    \E char \in Chars :
        /\ IF Len(message_buffer) >= char_limit
           THEN /\ UNCHANGED message_buffer
                /\ returned' = [op |-> "add_character", arg |-> char, value |-> FALSE]
           ELSE /\ message_buffer' = Append(message_buffer, char)
                /\ returned' = [op |-> "add_character", arg |-> char, value |-> TRUE]
        /\ UNCHANGED <<selected_recipient, selected_number>>
        /\ ComposerFrame

delete_character ==
    /\ IF message_buffer # <<>>
       THEN /\ message_buffer' = SubSeq(message_buffer, 1, Len(message_buffer) - 1)
            /\ returned' = [op |-> "delete_character", arg |-> "", value |-> TRUE]
       ELSE /\ UNCHANGED message_buffer
            /\ returned' = [op |-> "delete_character", arg |-> "", value |-> FALSE]
    /\ UNCHANGED <<selected_recipient, selected_number>>
    /\ ComposerFrame

clear_message ==
    /\ message_buffer' = <<>>
    /\ returned' = [op |-> "clear_message", arg |-> "", value |-> FALSE]
    /\ UNCHANGED <<selected_recipient, selected_number>>
    /\ ComposerFrame

reset ==
    /\ selected_recipient' = None
    /\ selected_number' = None
    /\ message_buffer' = <<>>
    /\ returned' = [op |-> "reset", arg |-> "", value |-> FALSE]
    /\ ComposerFrame

ComposerNext ==
    \/ select_recipient_by_fkey
    \/ add_character
    \/ delete_character
    \/ clear_message
    \/ reset

ComposerSpec == ComposerInit /\ [][ComposerNext]_vars

\* ----------------------------------------------------------- _wrap_text
\* WrapSpec gives one body and one PRINTER_LINE_WIDTH to _wrap_text.  A text
\* is the sequence of its characters; "x" stands for any character of a word.
\* textwrap.wrap raises ValueError for a width below 1.

Alphabet == {"x", " ", "\n"}
Example == <<"h", "e", "l", "l", "o", " ", "w", "o", "r", "l", "d", " ",
             "f", "o", "o">>
Bodies == UNION {[1..n -> Alphabet] : n \in 0..MaxText} \cup {Example}
Widths == {1, 2, 3, 10}

IsSpace(c) == c = " "
Slice(s, a, b) == [i \in 1..(b - a + 1) |-> s[a + i - 1]]

\* str.splitlines(): the pieces between line breaks, as (first, last)
\* positions; a line break at the very end starts no further piece
splitlines(value) ==
    LET breaks == {i \in 1..Len(value) : value[i] = "\n"}
        starts == {1} \cup {i + 1 : i \in breaks}
        first  == {a \in starts : a <= Len(value)}
        ends(a) == CHOOSE b \in (a - 1)..Len(value) :
                      /\ \A k \in a..b : value[k] # "\n"
                      /\ b = Len(value) \/ value[b + 1] = "\n"
        ordered == Sorted(first)
    IN  [k \in 1..Len(ordered) |-> <<ordered[k], ends(ordered[k])>>]

\* textwrap's chunk that starts at position i: a run of spaces or a word
ChunkEnd(p, i) ==
    CHOOSE j \in i..Len(p) :
        /\ \A k \in i..j : IsSpace(p[k]) = IsSpace(p[i])
        /\ j = Len(p) \/ IsSpace(p[j + 1]) # IsSpace(p[i])

\* TextWrapper._wrap_chunks, inner loop: take chunks while they fit
RECURSIVE Fill(_, _, _, _)
Fill(p, j, cur_len, width) ==
    IF j > Len(p) THEN j
    ELSE LET l == ChunkEnd(p, j) - j + 1
         IN  IF cur_len + l <= width THEN Fill(p, j + l, cur_len + l, width)
             ELSE j

\* TextWrapper._wrap_chunks from position i on: the lines as (first, last)
\* positions in the paragraph p
RECURSIVE _wrap_chunks(_, _, _, _)
_wrap_chunks(p, i, done, width) ==
    IF i > Len(p) THEN done
    ELSE
    LET \* a line does not start with spaces, except the first
        i0 == IF IsSpace(p[i]) /\ done # <<>> THEN ChunkEnd(p, i) + 1 ELSE i
        j1 == Fill(p, i0, 0, width)
        \* _handle_long_word: a chunk longer than the width fills the line
        long == j1 <= Len(p) /\ ChunkEnd(p, j1) - j1 + 1 > width
        j2 == IF long THEN j1 + (width - (j1 - i0)) ELSE j1
        \* the last chunk taken whole
        s == CHOOSE a \in i0..(j1 - 1) :
                /\ \A k \in a..(j1 - 1) : IsSpace(p[k]) = IsSpace(p[j1 - 1])
                /\ a = i0 \/ IsSpace(p[a - 1]) # IsSpace(p[j1 - 1])
        \* drop_whitespace: the last element of the line goes if it is blank
        e == IF long
             THEN IF j2 = j1 \/ IsSpace(p[j1]) THEN j1 - 1 ELSE j2 - 1
             ELSE IF j1 > i0 /\ IsSpace(p[j1 - 1]) THEN s - 1 ELSE j1 - 1
    IN  _wrap_chunks(p, j2, IF e >= i0 THEN Append(done, <<i0, e>>) ELSE done,
                     width)

\* textwrap.wrap(para, width=LINE_WIDTH) alone: a blank paragraph has no line
wrap_NoBlank(value, k, width) ==
    LET piece == splitlines(value)[k]
        para == Slice(value, piece[1], piece[2])
        wrapped == _wrap_chunks(para, 1, <<>>, width)
    IN  [i \in 1..Len(wrapped) |->
            [para |-> k, from |-> wrapped[i][1], to |-> wrapped[i][2]]]

\* textwrap.wrap(para, width=LINE_WIDTH) or [""], with the paragraph number
wrap(value, k, width) ==
    LET piece == splitlines(value)[k]
        para == Slice(value, piece[1], piece[2])
        wrapped == _wrap_chunks(para, 1, <<>>, width)
    IN  IF wrapped = <<>> THEN << [para |-> k, from |-> 1, to |-> 0] >>
        ELSE [i \in 1..Len(wrapped) |->
                 [para |-> k, from |-> wrapped[i][1], to |-> wrapped[i][2]]]

RECURSIVE Extend(_, _, _)
Extend(value, k, width) ==
    IF k = 0 THEN <<>> ELSE Extend(value, k - 1, width) \o wrap(value, k, width)

\* for para in value.splitlines() or [""]: lines.extend(wrap(para) or [""])
_wrap_text(value, width) ==
    IF splitlines(value) = <<>> THEN << [para |-> 1, from |-> 1, to |-> 0] >>
    ELSE Extend(value, Len(splitlines(value)), width)

Paragraph(value, k) ==
    IF splitlines(value) = <<>> THEN <<>>
    ELSE Slice(value, splitlines(value)[k][1], splitlines(value)[k][2])

WrapInit ==
    /\ NoPollers
    /\ NoComposer
    /\ NoReceipt
    /\ NoCycle
    /\ NoFurther
    /\ body \in Bodies
    /\ LINE_WIDTH \in Widths
    /\ lines = <<>>
    /\ cuts = <<>>

WrapText ==
    /\ lines = <<>>
    /\ cuts' = _wrap_text(body, LINE_WIDTH)
    /\ lines' = [i \in 1..Len(cuts') |->
                    Slice(Paragraph(body, cuts'[i].para), cuts'[i].from,
                          cuts'[i].to)]
    /\ UNCHANGED <<pollers, composer, renderer, cycle, further, body,
                   LINE_WIDTH>>

WrapNext ==
    \/ WrapText

WrapSpec == WrapInit /\ [][WrapNext]_vars

\* ------------------------------------------------------------ the receipt
\* ReceiptSpec follows one authorized message through label resolution, the
\* print routine and the bookkeeping after it, directive by directive.  The
\* printer accepts every text directive here; a write that fails is PrintFail.

\* "grandma" and "nana" may name the same sender
Contacts ==
    {<<>>, << <<"grandma", 1>> >>, << <<"grandma", 1>>, <<"nana", 1>> >>,
     << <<"uncle", -1>>, <<"grandma", 1>> >>}
Senders == {1, -1}
\* "u" stands for a character outside the printer's encoding
Texts == {<<>>, <<"x">>, <<"u">>, <<"x", "u", " ", "x", "x">>,
          <<"x", "\n", "\n", "x">>}
\* AVATAR_ENABLED off; no avatar file for the contact; Image.open raises;
\* printer.image raises; the avatar prints
AvatarFiles == {"disabled", "missing", "unreadable", "unprintable", "ok"}
\* no photo (or TELEGRAM_DOWNLOAD_PHOTOS off); _download_photo returns None;
\* _process_image raises; printer.image raises; the photo prints
Photos == {"none", "undownloaded", "unprocessable", "unprintable", "ok"}
Cutters == {"ok", "fails"}

Set(align, style) ==
    [kind |-> "set", align |-> align, style |-> style, arg |-> <<>>,
     label |-> NoLabel]
Text(kind, arg) ==
    [kind |-> kind, align |-> "", style |-> "", arg |-> arg, label |-> NoLabel]
From(l) ==
    [kind |-> "from", align |-> "", style |-> "", arg |-> <<>>, label |-> l]
Blank == Text("blank", <<>>)

\* value.encode(ENCODING, "ignore").decode(ENCODING)
_sanitize(value) == SelectSeq(value, LAMBDA c : c # "u")

\* the first name of CONTACTS stored with this id, "" if there is none
_extract_contact_name(c, chat_id) ==
    IF \E i \in 1..Len(c) : c[i][2] = chat_id
    THEN c[CHOOSE i \in 1..Len(c) :
               /\ c[i][2] = chat_id
               /\ \A j \in 1..(i - 1) : c[j][2] # chat_id][1]
    ELSE ""

_contact_label_Bare(c, number) == [name |-> "", id |-> number]

\* f"{name} ({number})" for the first name stored with the number, else the
\* number alone
_contact_label(c, number) ==
    [name |-> _extract_contact_name(c, number), id |-> number]

\* the lines of the body as text directives
BodyLines(value, width) ==
    LET piece == _wrap_text(value, width)
    IN  [i \in 1..Len(piece) |->
            Text("line", Slice(Paragraph(value, piece[i].para), piece[i].from,
                               piece[i].to))]

\* header, timestamp and rule
Heading ==
    <<Set("center", "big bold"), Text("header", <<>>), Set("center", "normal"),
      Text("timestamp", <<>>), Text("rule", <<>>)>>

\* an image block; set and the first blank line are out when image() raises
ImageBlock(which, outcome) ==
    IF outcome = "ok"
    THEN <<Set("center", ""), Blank, Text("image", <<which>>), Blank>>
    ELSE IF outcome = "unprintable" THEN <<Set("center", ""), Blank>>
    ELSE <<>>

\* printer.cut(), and three line feeds if it raises
CutOrFeed(c) == IF c = "ok" THEN <<Text("cut", <<>>)>> ELSE <<Text("feed", <<>>)>>

_print_message(c, sender, value, width, cut) ==
    [sent |-> Heading
              \o <<Set("left", "bold"), From(_contact_label(c, sender))>>
              \o <<Set("left", "normal")>> \o BodyLines(_sanitize(value), width)
              \o <<Blank>> \o CutOrFeed(cut),
     raised |-> FALSE]

\* heading, sender, avatar block, text
UpToText_LabelFirst(c, l, value, width, avatar) ==
    Heading
    \o <<Set("left", "bold"), From(l)>>
    \o (IF avatar # "disabled" /\ _extract_contact_name(c, l.id) # ""
        THEN ImageBlock("avatar", avatar) ELSE <<>>)
    \o (IF value # <<>>
        THEN <<Set("left", "normal")>> \o BodyLines(_sanitize(value), width)
             \o <<Blank>>
        ELSE <<>>)

\* telegram_poller.py:201-241: heading, avatar block, sender, text
UpToText(c, l, value, width, avatar) ==
    Heading
    \o (IF avatar # "disabled" /\ _extract_contact_name(c, l.id) # ""
        THEN ImageBlock("avatar", avatar) ELSE <<>>)
    \o <<Set("left", "bold"), From(l)>>
    \o (IF value # <<>>
        THEN <<Set("left", "normal")>> \o BodyLines(_sanitize(value), width)
             \o <<Blank>>
        ELSE <<>>)

\* the label carries the chat id last, in brackets or alone, so that
\* int(sender_label.split('(')[-1].rstrip(')')) is the chat id again
_print_telegram_message(c, l, value, width, avatar, ph, cut) ==
    [sent |-> UpToText(c, l, value, width, avatar)
              \o (IF ph \in {"unprocessable", "unprintable", "ok"}
                  THEN ImageBlock("photo", ph) ELSE <<>>)
              \o <<Blank>> \o CutOrFeed(cut),
     raised |-> FALSE]

ReceiptInit ==
    /\ NoComposer
    /\ NoCycle
    /\ NoFurther
    /\ poller \in Pollers
    /\ MAX_STATE = 0
    /\ FETCH_LIMIT = NoLimit
    /\ allowlist_env = {}
    /\ ALLOWLIST = {}
    /\ \E sender \in Senders :
          /\ inbox = << [id |-> 1, from_ |-> sender, kind |-> "msg"] >>
          /\ new_messages = inbox
    /\ tg_confirmed = 0
    /\ STATE_FILE = Absent
    /\ pc = "batch"
    /\ printer = "Handle"
    /\ seen_order = <<>>
    /\ seen = {}
    /\ last_update_id = IF poller = "tg" THEN 1 ELSE None
    /\ printed_now = 0
    /\ state_dirty = FALSE
    /\ restarts = 0
    /\ written = {}
    /\ retry = 0
    /\ persisted = {}
    /\ batch_ids = <<1>>
    /\ interrupted = {}
    /\ fetch_failed = FALSE
    /\ ev = NoEvent
    /\ body \in Texts
    /\ LINE_WIDTH = 3
    /\ lines = <<>>
    /\ cuts = <<>>
    /\ CONTACTS \in Contacts
    /\ sender_label = NoLabel
    /\ last_sender = NoLabel
    /\ avatar_file \in (IF poller = "tg" THEN AvatarFiles ELSE {"disabled"})
    /\ photo \in (IF poller = "tg" THEN Photos ELSE {"none"})
    /\ cutter \in Cutters
    /\ directives = <<>>
    /\ receipt = "none"

\* what the rest of the loop body does once the print call has ended
Booked(result, l) ==
    /\ directives' = result.sent
    /\ IF result.raised
       THEN /\ receipt' = "raised"
            /\ printer' = "None"
            /\ new_messages' = <<>>
            /\ UNCHANGED <<seen_order, seen, printed_now, state_dirty, written,
                           last_sender>>
       ELSE /\ receipt' = "returned"
            /\ last_sender' = l
            /\ seen' = seen \cup {new_messages[1].id}
            /\ seen_order' = Append(seen_order, new_messages[1].id)
            /\ printed_now' = printed_now + 1
            /\ state_dirty' = TRUE
            /\ written' = written \cup {new_messages[1].id}
            /\ new_messages' = Tail(new_messages)
            /\ UNCHANGED printer
    /\ UNCHANGED <<config, source, STATE_FILE, pc, last_update_id, restarts,
                   retry, persisted, batch_ids, interrupted, fetch_failed, ev,
                   composer, wrapper, cycle, further, CONTACTS, avatar_file, photo,
                   cutter>>

\* sender_label = _contact_label(chat_id), telegram_poller.py:328
ResolveLabel ==
    /\ poller = "tg"
    /\ receipt = "none"
    /\ sender_label = NoLabel
    /\ sender_label' = _contact_label(CONTACTS, new_messages[1].from_)
    /\ UNCHANGED <<pollers, composer, wrapper, cycle, further, CONTACTS,
                   last_sender,
                   avatar_file, photo, cutter, directives, receipt>>

\* sms_poller.py:175-183
PrintSms ==
    /\ poller = "sms"
    /\ receipt = "none"
    /\ Booked(_print_message(CONTACTS, new_messages[1].from_, body,
                             LINE_WIDTH, cutter),
              _contact_label(CONTACTS, new_messages[1].from_))
    /\ UNCHANGED sender_label

\* telegram_poller.py:330-348
PrintTelegram ==
    /\ poller = "tg"
    /\ receipt = "none"
    /\ sender_label # NoLabel
    /\ Booked(_print_telegram_message(CONTACTS, sender_label, body, LINE_WIDTH,
                                      avatar_file, photo, cutter),
              sender_label)
    /\ UNCHANGED sender_label

ReceiptNext ==
    \/ ResolveLabel
    \/ PrintSms
    \/ PrintTelegram

ReceiptSpec == ReceiptInit /\ [][ReceiptNext]_vars

\* ---------------------------------------------------- one cycle in stages
\* CycleSpec follows the cycles of a poller whose fetch succeeds stage by
\* stage: allowlist test, print call, bookkeeping, then the status display
\* and the save.  The messages are at the source from the start, and the
\* state file of an earlier run may already hold the first of them.

Inboxes ==
    UNION {{[i \in 1..n |-> [id |-> i, from_ |-> f[i].from_, kind |-> f[i].kind]] :
               f \in [1..n -> Shapes]} : n \in 0..MaxMsgs}
Event(name, id) == [stage |-> name, id |-> id]

\* render_polling_status without its try/except
render_polling_status_Unguarded(e, new_count, outcome) ==
    IF e = "None" \/ new_count <= 0 THEN "display_off"
    ELSE IF outcome = "ok" THEN "display"
    ELSE "raised"

\* render_polling_status: nothing without a display or a count; a failure
\* of the drawing or of the device is logged and swallowed
render_polling_status(e, new_count, outcome) ==
    IF e = "None" \/ new_count <= 0 THEN "display_off"
    ELSE IF outcome = "ok" THEN "display"
    ELSE "display_failed"

CycleInit ==
    /\ NoComposer
    /\ NoWrap
    /\ poller \in Pollers
    /\ MAX_STATE \in StateLimits
    /\ FETCH_LIMIT \in (IF poller = "sms" THEN FetchLimits ELSE {NoLimit})
    /\ allowlist_env \in AllowlistSettings(poller)
    /\ ALLOWLIST = ParseAllowlist(poller, allowlist_env)
    /\ inbox \in Inboxes
    /\ tg_confirmed = 0
    /\ STATE_FILE \in {Absent} \cup
           {_save_state(poller, <<1>>, MAX_STATE) : i \in DOMAIN inbox}
    /\ pc = "boot"
    /\ printer = "None"
    /\ seen_order = <<>>
    /\ seen = {}
    /\ last_update_id = None
    /\ new_messages = <<>>
    /\ printed_now = 0
    /\ state_dirty = FALSE
    /\ restarts = 0
    /\ written = {}
    /\ retry = 0
    /\ persisted = {}
    /\ batch_ids = <<>>
    /\ interrupted = {}
    /\ fetch_failed = FALSE
    /\ ev = NoEvent
    /\ CONTACTS \in {<<>>, << <<"grandma", 1>> >>}
    /\ sender_label = NoLabel
    /\ last_sender = NoLabel
    /\ avatar_file = "disabled"
    /\ photo = "none"
    /\ cutter = "ok"
    /\ directives = <<>>
    /\ receipt = "none"
    /\ epd \in {"None", "Display"}
    /\ displayed = NoShow
    /\ stage = "next"
    /\ stages = <<>>
    /\ NoFurther

CycleFixed ==
    <<config, inbox, restarts, written, retry, persisted, interrupted,
      fetch_failed, ev, composer, wrapper, CONTACTS, avatar_file, photo, cutter,
      directives, receipt, epd, further>>

\* the fetch and the two assignments after it
CycleFetch ==
    /\ pc = "top"
    /\ printer = "Handle"
    /\ IF poller = "sms"
       THEN /\ new_messages' = _fetch_messages(inbox, FETCH_LIMIT, seen)
            /\ UNCHANGED tg_confirmed
       ELSE /\ tg_confirmed' = TgConfirm(tg_confirmed, Offset(last_update_id))
            /\ new_messages' = TgReply(inbox, tg_confirmed, Offset(last_update_id))
    /\ batch_ids' = Ids(new_messages')
    /\ printed_now' = 0
    /\ state_dirty' = FALSE
    /\ pc' = "batch"
    /\ stage' = "next"
    /\ stages' = <<>>
    /\ UNCHANGED <<CycleFixed, STATE_FILE, printer, seen_order, seen,
                   last_update_id, sender_label, last_sender, displayed>>

\* chat bot: "if update_id in seen: continue"
CycleSkipSeen ==
    /\ InBatch
    /\ stage = "next"
    /\ poller = "tg"
    /\ Cur.id \in seen
    /\ last_update_id' = CursorAfter(last_update_id, Cur.id)
    /\ new_messages' = Tail(new_messages)
    /\ stages' = Append(stages, Event("skip", Cur.id))
    /\ UNCHANGED <<CycleFixed, tg_confirmed, STATE_FILE, pc, printer, seen_order,
                   seen, printed_now, state_dirty, batch_ids, sender_label,
                   last_sender, displayed, stage>>

\* chat bot: "if not msg_data": recorded without printing
CycleNoMessage ==
    /\ InBatch
    /\ stage = "next"
    /\ poller = "tg"
    /\ Cur.id \notin seen
    /\ Cur.kind = "other"
    /\ last_update_id' = CursorAfter(last_update_id, Cur.id)
    /\ seen' = MarkSeenSet(seen, Cur.id)
    /\ seen_order' = MarkSeenOrder(seen_order, Cur.id)
    /\ state_dirty' = TRUE
    /\ new_messages' = Tail(new_messages)
    /\ stages' = Append(stages, Event("no_message", Cur.id))
    /\ UNCHANGED <<CycleFixed, tg_confirmed, STATE_FILE, pc, printer, printed_now,
                   batch_ids, sender_label, last_sender, displayed, stage>>

\* the allowlist test: on to the print call, or recorded without printing
CycleAuthorize ==
    /\ Candidate
    /\ stage = "next"
    /\ last_update_id' = CursorAfter(last_update_id, Cur.id)
    /\ IF _should_print(Cur.from_)
       THEN /\ stage' = "authorized"
            /\ stages' = Append(stages, Event("authorize", Cur.id))
            /\ UNCHANGED <<seen, seen_order, state_dirty, new_messages>>
       ELSE /\ seen' = MarkSeenSet(seen, Cur.id)
            /\ seen_order' = MarkSeenOrder(seen_order, Cur.id)
            /\ state_dirty' = TRUE
            /\ new_messages' = Tail(new_messages)
            /\ stages' = Append(stages, Event("reject", Cur.id))
            /\ UNCHANGED stage
    /\ UNCHANGED <<CycleFixed, tg_confirmed, STATE_FILE, pc, printer, printed_now,
                   batch_ids, sender_label, last_sender, displayed>>

\* _print_message / _print_telegram_message returned
CycleWriteOk ==
    /\ InBatch
    /\ stage = "authorized"
    /\ sender_label' = _contact_label(CONTACTS, Cur.from_)
    /\ stage' = "written"
    /\ stages' = Append(stages, Event("write", Cur.id))
    /\ UNCHANGED <<CycleFixed, source, STATE_FILE, pc, printer, seen_order, seen,
                   last_update_id, new_messages, printed_now, state_dirty,
                   batch_ids, last_sender, displayed>>

\* the print call raised: "except Exception" sets printer = None and the
\* rest of the batch, the display update and the save are skipped
CycleWriteFail ==
    /\ InBatch
    /\ stage = "authorized"
    /\ printer' = "None"
    /\ new_messages' = <<>>
    /\ pc' = "finally"
    /\ stage' = "next"
    /\ stages' = Append(stages, Event("write_failed", Cur.id))
    /\ UNCHANGED <<CycleFixed, tg_confirmed, STATE_FILE, seen_order, seen,
                   last_update_id, printed_now, state_dirty, batch_ids,
                   sender_label, last_sender, displayed>>

\* variant: last_sender is not assigned
CycleAppend_NoSender ==
    /\ InBatch
    /\ stage = "written"
    /\ seen' = MarkSeenSet(seen, Cur.id)
    /\ seen_order' = MarkSeenOrder(seen_order, Cur.id)
    /\ printed_now' = printed_now + 1
    /\ state_dirty' = TRUE
    /\ new_messages' = Tail(new_messages)
    /\ stage' = "next"
    /\ stages' = Append(stages, Event("append", Cur.id))
    /\ UNCHANGED <<CycleFixed, tg_confirmed, STATE_FILE, pc, printer,
                   last_update_id, batch_ids, sender_label, last_sender,
                   displayed>>

\* the statements after the print call
CycleAppend ==
    /\ InBatch
    /\ stage = "written"
    /\ seen' = MarkSeenSet(seen, Cur.id)
    /\ seen_order' = MarkSeenOrder(seen_order, Cur.id)
    /\ printed_now' = printed_now + 1
    /\ last_sender' = sender_label
    /\ state_dirty' = TRUE
    /\ new_messages' = Tail(new_messages)
    /\ stage' = "next"
    /\ stages' = Append(stages, Event("append", Cur.id))
    /\ UNCHANGED <<CycleFixed, tg_confirmed, STATE_FILE, pc, printer,
                   last_update_id, batch_ids, sender_label, displayed>>

\* "if printed_now: render_polling_status(epd, printed_now, last_sender)"
CycleDisplay ==
    /\ pc = "batch"
    /\ new_messages = <<>>
    /\ stage = "next"
    /\ IF printed_now > 0
       THEN \E outcome \in {"ok", "fails"} :
               LET result == render_polling_status(epd, printed_now, outcome)
               IN  /\ displayed' = [count |-> printed_now, label |-> last_sender]
                   /\ IF result = "raised"
                      THEN /\ printer' = "None"
                           /\ pc' = "finally"
                           /\ stages' = Append(stages, Event("display_failed", 0))
                      ELSE /\ pc' = "save"
                           /\ stages' = Append(stages, Event(result, 0))
                           /\ UNCHANGED printer
       ELSE /\ pc' = "save"
            /\ UNCHANGED <<displayed, stages, printer>>
    /\ UNCHANGED <<CycleFixed, tg_confirmed, STATE_FILE, seen_order, seen,
                   last_update_id, new_messages, printed_now, state_dirty,
                   batch_ids, sender_label, last_sender, stage>>

\* variant: the state file is written after every message that dirtied it
CycleSave_EveryMessage ==
    /\ pc \in {"batch", "save"}
    /\ stage = "next"
    /\ state_dirty
    /\ seen_order' = Evict(seen_order, MAX_STATE)
    /\ seen' = EvictSet(seen, seen_order, MAX_STATE)
    /\ STATE_FILE' = _save_state(poller, seen_order', MAX_STATE)
    /\ stages' = Append(stages, Event("save", 0))
    /\ state_dirty' = FALSE
    /\ pc' = IF pc = "save" THEN "finally" ELSE pc
    /\ UNCHANGED <<CycleFixed, tg_confirmed, printer, last_update_id,
                   new_messages, printed_now, batch_ids, sender_label,
                   last_sender, displayed, stage>>

\* "if state_dirty: evict the overflow; _save_state(seen_order)"
CycleSave ==
    /\ pc = "save"
    /\ IF state_dirty
       THEN /\ seen_order' = Evict(seen_order, MAX_STATE)
            /\ seen' = EvictSet(seen, seen_order, MAX_STATE)
            /\ STATE_FILE' = _save_state(poller, seen_order', MAX_STATE)
            /\ stages' = Append(stages, Event("save", 0))
       ELSE UNCHANGED <<seen_order, seen, STATE_FILE, stages>>
    /\ pc' = "finally"
    /\ UNCHANGED <<CycleFixed, tg_confirmed, printer, last_update_id,
                   new_messages, printed_now, state_dirty, batch_ids,
                   sender_label, last_sender, displayed, stage>>

\* SMS finally clause: KeyboardInterrupt during the sleep:
\* _save_state(seen_order); return
CycleInterruptSleep ==
    /\ poller = "sms"
    /\ pc = "finally"
    /\ STATE_FILE' = _save_state(poller, seen_order, MAX_STATE)
    /\ stages' = Append(stages, Event("interrupt_save", 0))
    /\ pc' = "exited"
    /\ UNCHANGED <<CycleFixed, tg_confirmed, printer, seen_order, seen,
                   last_update_id, new_messages, printed_now, state_dirty,
                   batch_ids, sender_label, last_sender, displayed, stage>>

CycleNext ==
    \/ Load
    \/ OpenOk
    \/ CycleFetch
    \/ CycleSkipSeen
    \/ CycleNoMessage
    \/ CycleAuthorize
    \/ CycleWriteOk
    \/ CycleWriteFail
    \/ CycleAppend
    \/ CycleDisplay
    \/ CycleSave
    \/ Sleep
    \/ FinallyPass
    \/ CycleInterruptSleep

CycleSpec == CycleInit /\ [][CycleNext]_vars

\* ------------------------------------------------------------ get_printer
\* OpenSpec follows the poll loop with get_printer followed into the printer
\* backends: the loop opens the printer, fetches, prints the one message the
\* source may hold, and loses the handle when a fetch or a print raises.

\* what PRINTER_DRIVER may be set to ("": unset, and PRINTER_TYPE unset too)
DriverSettings ==
    {"", "dummy", " Dummy", "usb", "serial", "bluetooth", "Network", "lp0", " "}
\* str.strip().lower()
StripLower(value) ==
    CASE value = " Dummy" -> "dummy"
      [] value = "Network" -> "network"
      [] value = " " -> ""
      [] OTHER -> value
\* _printer_backend: os.getenv("PRINTER_DRIVER") or os.getenv("PRINTER_TYPE",
\* "usb"), stripped and lowered
_printer_backend(setting) ==
    StripLower(IF setting = "" THEN "usb" ELSE setting)

\* the escpos class that get_printer constructs for a driver; "": none, and
\* get_printer raises ValueError
BackendOf(driver) ==
    CASE driver = "usb" -> "Usb"
      [] driver \in {"serial", "bluetooth"} -> "Serial"
      [] driver = "network" -> "Network"
      [] OTHER -> ""

\* variant: no fallback to the dummy printer
get_printer_NoFallback(setting, allow_dummy, dev) ==
    LET driver == _printer_backend(setting)
    IN  IF driver = "dummy" THEN "DummyPrinter"
        ELSE IF BackendOf(driver) # "" /\ dev = "up" THEN BackendOf(driver)
        ELSE "None"

\* get_printer: the dummy driver first; then the backend's constructor inside
\* try; "except Exception" returns DummyPrinter() if allow_dummy, else None
get_printer(setting, allow_dummy, dev) ==
    LET driver == _printer_backend(setting)
    IN  IF driver = "dummy" THEN "DummyPrinter"
        ELSE IF BackendOf(driver) # "" /\ dev = "up" THEN BackendOf(driver)
        ELSE IF allow_dummy THEN "DummyPrinter"
        ELSE "None"

OpenInit ==
    /\ NoComposer
    /\ NoWrap
    /\ NoReceipt
    /\ NoCycle
    /\ poller \in Pollers
    /\ MAX_STATE = 2
    /\ FETCH_LIMIT = (IF poller = "sms" THEN 2 ELSE NoLimit)
    /\ allowlist_env = {}
    /\ ALLOWLIST = ParseAllowlist(poller, allowlist_env)
    /\ inbox \in {<<>>, <<[id |-> 1, from_ |-> 1, kind |-> "msg"]>>}
    /\ tg_confirmed = 0
    /\ STATE_FILE = Absent
    /\ pc = "boot"
    /\ printer = "None"
    /\ seen_order = <<>>
    /\ seen = {}
    /\ last_update_id = None
    /\ new_messages = <<>>
    /\ printed_now = 0
    /\ state_dirty = FALSE
    /\ restarts = 0
    /\ written = {}
    /\ retry = 0
    /\ persisted = {}
    /\ batch_ids = <<>>
    /\ interrupted = {}
    /\ fetch_failed = FALSE
    /\ ev = NoEvent
    /\ PRINTER_DRIVER \in DriverSettings
    /\ ALLOW_DUMMY \in BOOLEAN
    /\ device \in {"up", "down"}
    /\ opened = "None"
    /\ NoKeyboard
    /\ NoAdmin

\* the printer is switched on or off, plugged in or unplugged
DeviceChange ==
    /\ device' = (IF device = "up" THEN "down" ELSE "up")
    /\ UNCHANGED <<pollers, composer, wrapper, renderer, cycle, keyboard,
                   admin, PRINTER_DRIVER, ALLOW_DUMMY, opened>>

\* poll_loop: "if printer is None: printer = get_printer(allow_dummy=
\* ALLOW_DUMMY)", and "if printer is None: ... time.sleep(10); continue"
Open ==
    /\ pc = "top"
    /\ printer = "None"
    /\ opened' = get_printer(PRINTER_DRIVER, ALLOW_DUMMY, device)
    /\ printer' = (IF opened' = "None" THEN "None" ELSE "Handle")
    /\ pc' = (IF opened' = "None" THEN "backoff" ELSE "top")
    /\ ev' = [op |-> IF opened' = "None" THEN "open_fail" ELSE "open_ok",
              id |-> 0, n |-> AfterFailedOpen]
    /\ UNCHANGED <<config, source, STATE_FILE, seen_order, seen, last_update_id,
                   new_messages, printed_now, state_dirty, restarts, observer,
                   composer, wrapper, renderer, cycle, keyboard, admin,
                   PRINTER_DRIVER, ALLOW_DUMMY, device>>

OpenNext ==
    \/ Load
    \/ DeviceChange
    \/ Open
    \/ Backoff
    \/ SmsFetchOk
    \/ SmsFetchFail
    \/ TgFetchOk
    \/ TgFetchFail
    \/ PrintOk
    \/ PrintFail
    \/ EndBatch
    \/ Sleep
    \/ FinallyPass

OpenSpec == OpenInit /\ [][OpenNext]_vars

\* ------------------------------------------------------- interactive_loop
\* KeyboardSpec follows interactive_loop: the composer it constructs from
\* the contacts that load_contacts returned, and on_key_press for every key
\* event of the listener, until ESC stops the listener.

\* load_contacts(limit=12) raises without a contact and returns 12 at most
LoadedContacts ==
    {c \in Directories : c # <<>> /\ Cardinality(DOMAIN c) <= 12}
KeyEvents ==
    {[kind |-> k, arg |-> ""] : k \in {"esc", "enter", "backspace", "shift"}}
    \cup {[kind |-> "f", arg |-> k] : k \in {"F1", "F2", "F13"}}
    \cup {[kind |-> "char", arg |-> c] : c \in Chars}
\* is_function_key: the name of F1..F12, None ("") for every other key
is_function_key(k) ==
    IF k.kind = "f" /\ k.arg \in {FKeyNames[i] : i \in 1..12} THEN k.arg ELSE ""
is_ready_to_send == selected_recipient # None /\ message_buffer # <<>>

KeyboardInit ==
    /\ NoPollers
    /\ NoWrap
    /\ NoReceipt
    /\ NoCycle
    /\ NoOpener
    /\ NoAdmin
    /\ contacts \in LoadedContacts
    /\ fkey_map = map_fkeys_to_contacts(contacts)
    /\ char_limit \in {0, 1}
    /\ selected_recipient = None
    /\ selected_number = None
    /\ message_buffer = <<>>
    /\ returned = NoCall
    /\ listening = TRUE
    /\ screen = "contacts"
    /\ outbox = <<>>
    /\ dispatched = FALSE
    /\ key = "none"

KeyboardFixed ==
    <<pollers, wrapper, renderer, cycle, opener, admin, contacts, fkey_map,
      char_limit, returned>>

\* "if key == keyboard.Key.esc": the contact list, and the listener stops
KeyEsc ==
    /\ listening
    /\ key' = "esc"
    /\ screen' = "contacts"
    /\ listening' = FALSE
    /\ UNCHANGED <<KeyboardFixed, selected_recipient, selected_number,
                   message_buffer, outbox, dispatched>>

\* "if fkey_name": composer.select_recipient_by_fkey(fkey_name)
KeyFunction ==
    /\ listening
    /\ \E k \in KeyEvents :
          /\ is_function_key(k) # ""
          /\ key' = k.kind
          /\ LET result == get_contact_from_fkey(is_function_key(k), fkey_map,
                                                 contacts)
             IN  IF result # NoContact
                 THEN /\ selected_recipient' = result[1]
                      /\ selected_number' = result[2]
                      /\ message_buffer' = <<>>
                      /\ dispatched' = FALSE
                      /\ screen' = "compose"
                 ELSE UNCHANGED <<selected_recipient, selected_number,
                                  message_buffer, dispatched, screen>>
    /\ UNCHANGED <<KeyboardFixed, listening, outbox>>

\* variant: no composer.reset() after the send
KeyEnter_NoReset ==
    /\ listening
    /\ is_ready_to_send => Len(outbox) < MaxSent
    /\ key' = "enter"
    /\ IF ~is_ready_to_send
       THEN UNCHANGED <<outbox, dispatched, screen>>
       ELSE \E success \in BOOLEAN :
               /\ outbox' = Append(outbox, [name |-> selected_recipient,
                                            number |-> selected_number,
                                            text |-> message_buffer,
                                            sent |-> success,
                                            again |-> dispatched])
               /\ dispatched' = TRUE
               /\ screen' = "contacts"
    /\ UNCHANGED <<KeyboardFixed, listening, selected_recipient,
                   selected_number, message_buffer>>

\* "if key == keyboard.Key.enter": nothing unless is_ready_to_send();
\* send_sms (True or False), the confirmation, composer.reset(), the
\* contact list
KeyEnter ==
    /\ listening
    /\ is_ready_to_send => Len(outbox) < MaxSent
    /\ key' = "enter"
    /\ IF ~is_ready_to_send
       THEN UNCHANGED <<selected_recipient, selected_number, message_buffer,
                        outbox, dispatched, screen>>
       ELSE \E success \in BOOLEAN :
               /\ outbox' = Append(outbox, [name |-> selected_recipient,
                                            number |-> selected_number,
                                            text |-> message_buffer,
                                            sent |-> success,
                                            again |-> dispatched])
               /\ selected_recipient' = None
               /\ selected_number' = None
               /\ message_buffer' = <<>>
               /\ dispatched' = FALSE
               /\ screen' = "contacts"
    /\ UNCHANGED <<KeyboardFixed, listening>>

\* "if key == keyboard.Key.backspace": composer.delete_character() if a
\* recipient is selected
KeyBackspace ==
    /\ listening
    /\ key' = "backspace"
    /\ IF selected_recipient # None /\ message_buffer # <<>>
       THEN /\ message_buffer' =
                  SubSeq(message_buffer, 1, Len(message_buffer) - 1)
            /\ screen' = "compose"
       ELSE UNCHANGED <<message_buffer, screen>>
    /\ UNCHANGED <<KeyboardFixed, selected_recipient, selected_number,
                   listening, outbox, dispatched>>

\* variant: the character is added whether or not a recipient is selected
KeyChar_NoRecipientTest ==
    /\ listening
    /\ \E k \in KeyEvents :
          /\ k.kind = "char"
          /\ key' = k.kind
          /\ IF Len(message_buffer) >= char_limit
             THEN UNCHANGED <<message_buffer, screen>>
             ELSE /\ message_buffer' = Append(message_buffer, k.arg)
                  /\ screen' = "compose"
    /\ UNCHANGED <<KeyboardFixed, selected_recipient, selected_number,
                   listening, outbox, dispatched>>

\* "if hasattr(key, 'char') and key.char": nothing without a recipient, else
\* composer.add_character(key.char)
KeyChar ==
    /\ listening
    /\ \E k \in KeyEvents :
          /\ k.kind = "char"
          /\ key' = k.kind
          /\ IF selected_recipient = None \/ Len(message_buffer) >= char_limit
             THEN UNCHANGED <<message_buffer, screen>>
             ELSE /\ message_buffer' = Append(message_buffer, k.arg)
                  /\ screen' = "compose"
    /\ UNCHANGED <<KeyboardFixed, selected_recipient, selected_number,
                   listening, outbox, dispatched>>

\* any other key (F13, shift, ...): every test of on_key_press fails
KeyOther ==
    /\ listening
    /\ \E k \in KeyEvents :
          /\ k.kind \in {"f", "shift"}
          /\ is_function_key(k) = ""
          /\ key' = k.kind
    /\ UNCHANGED <<KeyboardFixed, selected_recipient, selected_number,
                   message_buffer, listening, screen, outbox, dispatched>>

KeyboardNext ==
    \/ KeyEsc
    \/ KeyFunction
    \/ KeyEnter
    \/ KeyBackspace
    \/ KeyChar
    \/ KeyOther

KeyboardSpec == KeyboardInit /\ [][KeyboardNext]_vars

\* ---------------------------------------------- the admin's contact requests
\* AdminSpec follows the .env file through the add, edit and delete contact
\* requests of admin_web.py, each of which reads the file with
\* get_contacts_from_env and get_allowlist_from_env and writes it with
\* save_env_config.
\*
\* A line of the file is [key, value, nl]: the text before "=", the text
\* after it, and whether a line break ends the line.  The value of a
\* CONTACTS line is its comma-separated chunks, each [name, number] with 0
\* for an empty part or for a chunk without ":"; the value of an ALLOWLIST
\* line is its items, 0 for an empty one.  A contact dict is the sequence
\* of its <<name, number>> pairs in insertion order.

Chunk(name, number) == [name |-> name, number |-> number]
Line(k, v) == [key |-> k, value |-> v, nl |-> TRUE]
Unended(l) == [l EXCEPT !.nl = FALSE]
BlankLine == Line("", <<>>)
Directory(n) == [i \in 1..n |-> <<i, 5550 + i>>]

\* parse_contacts: chunks without ":" or with an empty part are skipped; a
\* name that comes again keeps its place and takes the later number
RECURSIVE parse_contacts(_)
parse_contacts(raw) ==
    IF raw = <<>> THEN <<>>
    ELSE LET before == parse_contacts(SubSeq(raw, 1, Len(raw) - 1))
             chunk == raw[Len(raw)]
         IN  IF chunk.name = 0 \/ chunk.number = 0 THEN before
             ELSE IF \E i \in DOMAIN before : before[i][1] = chunk.name
             THEN [i \in DOMAIN before |->
                      IF before[i][1] = chunk.name
                      THEN <<chunk.name, chunk.number>> ELSE before[i]]
             ELSE Append(before, <<chunk.name, chunk.number>>)

\* serialize_contacts: "name:number" for every item, joined by ","
serialize_contacts(c) == [i \in DOMAIN c |-> Chunk(c[i][1], c[i][2])]

\* parse_allowlist: the non-empty items
parse_allowlist(raw) == {raw[i] : i \in DOMAIN raw} \ {0}

\* serialize_allowlist: ','.join(sorted(numbers))
serialize_allowlist(numbers) == Sorted(numbers)

\* validate_contact_name: 0 is the empty name, -1 a name with ":" or ","
validate_contact_name(name) == name > 0
\* validate_phone_number: 0 is the empty number, -1 one that is not E.164
validate_phone_number(number) == number > 0

\* load_env_config: config[key.strip()] = value.strip() line by line, so
\* the last line of a key counts; config.get(k, "")
load_env_config(file, k) ==
    LET at == {i \in DOMAIN file :
                  file[i].key = k \/ (k = "CONTACTS" /\ file[i].key = "CONTACTS ")}
    IN  IF at = {} THEN <<>>
        ELSE file[CHOOSE i \in at : \A j \in at : j <= i].value

get_contacts_from_env(file) == parse_contacts(load_env_config(file, "CONTACTS"))
get_allowlist_from_env(file) == parse_allowlist(load_env_config(file, "ALLOWLIST"))

\* save_env_config: every line for which line.strip().startswith("CONTACTS=")
\* or ("ALLOWLIST=") is replaced, the others are kept; what was not found is
\* appended, "\nCONTACTS=...\n" and "ALLOWLIST=...\n".  f.writelines adds no
\* line break of its own: text written after a line that no line break
\* ended continues that line, and "\n" ends the last line or is a blank line.
save_env_config(c, allowlist, file) ==
    LET contacts_line == Line("CONTACTS", serialize_contacts(c))
        allowlist_line == Line("ALLOWLIST", serialize_allowlist(allowlist))
        updated_lines ==
            [i \in DOMAIN file |->
                IF file[i].key = "CONTACTS" THEN contacts_line
                ELSE IF file[i].key = "ALLOWLIST" THEN allowlist_line
                ELSE file[i]]
        contacts_found == \E i \in DOMAIN file : file[i].key = "CONTACTS"
        allowlist_found == \E i \in DOMAIN file : file[i].key = "ALLOWLIST"
        NoBreak(f) == f # <<>> /\ ~f[Len(f)].nl
        Glued(l, text) ==
            [key |-> l.key, value |-> <<l.value, text.key, text.value>>,
             nl |-> text.nl]
        Written(f, text) ==
            IF NoBreak(f)
            THEN Append(SubSeq(f, 1, Len(f) - 1), Glued(f[Len(f)], text))
            ELSE Append(f, text)
        LineBreak(f) ==
            IF NoBreak(f)
            THEN Append(SubSeq(f, 1, Len(f) - 1), [f[Len(f)] EXCEPT !.nl = TRUE])
            ELSE Append(f, BlankLine)
        with_contacts ==
            IF contacts_found THEN updated_lines
            ELSE Written(LineBreak(updated_lines), contacts_line)
    IN  IF allowlist_found THEN with_contacts
        ELSE Written(with_contacts, allowlist_line)

\* the .env files the admin may find
EnvFiles ==
    LET Foo == Line("FOO", <<>>)
        Allow == Line("ALLOWLIST", <<5551, 0>>)
    IN  {<<Foo>>, <<Foo, Unended(Allow)>>}
        \cup {<<Foo, Line("CONTACTS", serialize_contacts(Directory(n))), Allow>> :
                 n \in {0, 1, 11, 12}}
        \cup {<<Line("CONTACTS", serialize_contacts(Directory(n))), Unended(Foo)>> :
                 n \in {1, 12}}
        \cup {<<Line("CONTACTS", <<Chunk(1, 5551), Chunk(0, 0), Chunk(1, 5570)>>),
                Unended(Allow)>>}
        \cup {<<Line("CONTACTS", serialize_contacts(Directory(1))), Allow,
                Line("CONTACTS ", serialize_contacts(Directory(2)))>>}
RequestNames == {0, 1, 12, 13}
RequestNumbers == {-1, 5551, 5570}

AdminInit ==
    /\ NoPollers
    /\ NoComposer
    /\ NoWrap
    /\ NoReceipt
    /\ NoCycle
    /\ NoOpener
    /\ NoKeyboard
    /\ env_file \in EnvFiles
    /\ response = NoResponse

AdminFixed == <<pollers, composer, wrapper, renderer, cycle, opener, keyboard>>
Refused(op, status, error) ==
    [op |-> op, status |-> status, error |-> error, contacts |-> <<>>,
     allowlist |-> {}]
Saved(op, c, allowlist) ==
    [op |-> op, status |-> 200, error |-> "", contacts |-> c,
     allowlist |-> allowlist]
Has(c, name) == \E i \in DOMAIN c : c[i][1] = name
Without(c, name) == SelectSeq(c, LAMBDA e : e[1] # name)

\* variant: no test of len(contacts) >= 12
add_contact_NoLimit ==
    /\ \E name \in RequestNames, number \in RequestNumbers :
           LET c == get_contacts_from_env(env_file)
               allowlist == get_allowlist_from_env(env_file)
           IN  IF ~validate_contact_name(name)
               THEN response' = Refused("add", 400, "name") /\ UNCHANGED env_file
               ELSE IF ~validate_phone_number(number)
               THEN response' = Refused("add", 400, "number") /\ UNCHANGED env_file
               ELSE IF Has(c, name)
               THEN response' = Refused("add", 400, "exists") /\ UNCHANGED env_file
               ELSE IF \E i \in DOMAIN c : c[i][2] = number
               THEN response' = Refused("add", 400, "assigned") /\ UNCHANGED env_file
               ELSE /\ env_file' = save_env_config(Append(c, <<name, number>>),
                                                   allowlist, env_file)
                    /\ response' = Saved("add", Append(c, <<name, number>>), allowlist)
    /\ UNCHANGED AdminFixed

\* add_contact: validation, duplicate name, duplicate number, the limit of
\* 12, then contacts[name] = number and save_env_config
add_contact ==
    /\ \E name \in RequestNames, number \in RequestNumbers :
           LET c == get_contacts_from_env(env_file)
               allowlist == get_allowlist_from_env(env_file)
           IN  IF ~validate_contact_name(name)
               THEN response' = Refused("add", 400, "name") /\ UNCHANGED env_file
               ELSE IF ~validate_phone_number(number)
               THEN response' = Refused("add", 400, "number") /\ UNCHANGED env_file
               ELSE IF Has(c, name)
               THEN response' = Refused("add", 400, "exists") /\ UNCHANGED env_file
               ELSE IF \E i \in DOMAIN c : c[i][2] = number
               THEN response' = Refused("add", 400, "assigned") /\ UNCHANGED env_file
               ELSE IF Len(c) >= 12
               THEN response' = Refused("add", 400, "limit") /\ UNCHANGED env_file
               ELSE /\ env_file' = save_env_config(Append(c, <<name, number>>),
                                                   allowlist, env_file)
                    /\ response' = Saved("add", Append(c, <<name, number>>), allowlist)
    /\ UNCHANGED AdminFixed

\* edit_contact: validation, old name known, new name free, then
\* del contacts[old_name]; contacts[new_name] = new_number and save_env_config
edit_contact ==
    /\ \E old_name \in RequestNames, new_name \in RequestNames,
          new_number \in RequestNumbers :
           LET c == get_contacts_from_env(env_file)
               allowlist == get_allowlist_from_env(env_file)
               edited == Append(Without(c, old_name), <<new_name, new_number>>)
           IN  IF ~validate_contact_name(new_name)
               THEN response' = Refused("edit", 400, "name") /\ UNCHANGED env_file
               ELSE IF ~validate_phone_number(new_number)
               THEN response' = Refused("edit", 400, "number") /\ UNCHANGED env_file
               ELSE IF ~Has(c, old_name)
               THEN response' = Refused("edit", 404, "unknown") /\ UNCHANGED env_file
               ELSE IF new_name # old_name /\ Has(c, new_name)
               THEN response' = Refused("edit", 400, "exists") /\ UNCHANGED env_file
               ELSE /\ env_file' = save_env_config(edited, allowlist, env_file)
                    /\ response' = Saved("edit", edited, allowlist)
    /\ UNCHANGED AdminFixed

\* delete_contact: name known, then del contacts[name] and save_env_config
delete_contact ==
    /\ \E name \in RequestNames :
           LET c == get_contacts_from_env(env_file)
               allowlist == get_allowlist_from_env(env_file)
           IN  IF ~Has(c, name)
               THEN response' = Refused("delete", 404, "unknown") /\ UNCHANGED env_file
               ELSE /\ env_file' = save_env_config(Without(c, name), allowlist,
                                                   env_file)
                    /\ response' = Saved("delete", Without(c, name), allowlist)
    /\ UNCHANGED AdminFixed

AdminNext ==
    \/ add_contact
    \/ edit_contact
    \/ delete_contact

AdminSpec == AdminInit /\ [][AdminNext]_vars

\* --------------------------------------------------------------- claims
FileIds == STATE_FILE.ids
Running == pc \in {"top", "backoff", "batch", "finally"}
Wrote == ev.op \in {"write_ok", "retry_ok", "write_fail"}
Arrived == 1..Len(inbox)
Permitted(id) == Authorized(inbox[id])
\* an inbound message whose sender is outside a non-empty allowlist
Unlisted(id) ==
    inbox[id].kind = "msg" /\ ALLOWLIST # {} /\ inbox[id].from_ \notin ALLOWLIST
AtEndOfLoop == pc = "batch" /\ new_messages = <<>>

\* the source will not hand the message out again, and the process does not
\* hold it: SMS, it has left the FETCH_LIMIT window; chat bot, the server has
\* it confirmed
Dropped(id) ==
    /\ id \notin Range(Ids(new_messages))
    /\ IF poller = "sms" THEN id <= Len(inbox) - FETCH_LIMIT
       ELSE id <= tg_confirmed

\* C1: a message id that a successfully written state file has held is never
\* rendered or written to the printer again (restarts and evictions included).
C1_PersistedNeverWrittenAgain ==
    Wrote => ev.id \notin persisted

C3_FailedMessageSurfacesAgain ==
    /\ ev.op = "write_fail" => (ev.id \notin seen /\ printer = "None")
    /\ (ev.op = "fetch_ok" /\ retry # 0) => retry \in Range(batch_ids)

\* C4: a message whose sender is outside a non-empty allowlist is never
\* written to the printer, and once the loop over its batch has ended its id
\* is in the seen ledger.
C4_UnlistedSkippedButSeen ==
    /\ \A id \in Arrived : Unlisted(id) => (id \notin written /\ retry # id)
    /\ Wrote => ~Unlisted(ev.id)
    /\ ev.op = "reject" => (Unlisted(ev.id) /\ ev.id \in seen)
    /\ AtEndOfLoop =>
          \A id \in Range(batch_ids) :
              Unlisted(id) => (id \in seen /\ Count(id, seen_order) = 1)

\* allowlist {1}, a batch with one message from 1 and one from -1: one write,
\* both ids in the ledger
C4_Witness ==
    /\ AtEndOfLoop
    /\ ALLOWLIST = {1}
    /\ Len(batch_ids) = 2
    /\ {inbox[id].from_ : id \in Range(batch_ids)} = {1, -1}
    /\ \A id \in Range(batch_ids) : inbox[id].kind = "msg"
    /\ printed_now = 1
    /\ Range(batch_ids) \subseteq seen

\* C5: no authorized message of a batch that a crash interrupted is dropped:
\* it has been written, or the restarted process can still fetch it.
C5_CrashedBatchNotDropped ==
    \A id \in interrupted :
        (Permitted(id) /\ id \notin written) => ~Dropped(id)

\* C6: no authorized message that reached the source is lost: it has been
\* written, or the loop can still fetch it.
C6_NoMessageLost ==
    \A id \in Arrived :
        (Permitted(id) /\ id \notin written) => ~Dropped(id)

\* C7: the seen ledger holds the id of an authorized message only if a write
\* of its receipt has completed without error.
C7_SeenOnlyAfterWrite ==
    /\ Running => \A id \in seen : Permitted(id) => id \in written
    /\ \A id \in Range(FileIds) : Permitted(id) => id \in written

C7_Witness ==
    /\ ev.op = "write_fail"
    /\ ev.id \notin seen
    /\ Permitted(ev.id)
    /\ \E id \in seen : Permitted(id) /\ id \in written

C9_SetMirrorsSequence ==
    Running => (seen = Range(seen_order) /\ Cardinality(seen) = Len(seen_order))

C9_Witness ==
    /\ ev.op = "save"
    /\ ev.n > 0
    /\ seen # {}
    /\ seen = Range(seen_order)

\* C10: every array written to the state file is the newest min(n, MAX_STATE)
\* entries of the ledger as it stood before the write, oldest first, on the
\* end-of-batch save and on the interrupt save.
SaveStep ==
    \/ pc = "batch" /\ pc' = "finally" /\ ev'.op = "save"
    \/ pc \in {"finally", "unwinding"} /\ ev'.op = "interrupt_save"
C10_WrittenArrayIsNewest ==
    [][SaveStep =>
         FileIds' = Newest(seen_order, Min(Len(seen_order), MAX_STATE))]_vars

\* steps of the loop itself, as against arrivals, signals and restarts
LoopStep ==
    /\ ev' # ev
    /\ ev'.op \notin {"crash", "crash_in_batch", "interrupt", "interrupt_save",
                      "interrupt_exit", "restart"}

\* C14: whenever an interrupt ends the process, the state file holds the
\* in-memory seen ledger as a persist writes it.
C14_InterruptPersists ==
    [][(pc # "exited" /\ pc' = "exited") =>
         _load_state(poller, STATE_FILE') = LastSlice(seen_order, MAX_STATE)]_vars

MaxOf(S) == CHOOSE x \in S : \A y \in S : y <= x
\* the chat bot's loop over a fetched batch has ended, normally or in a
\* failed write
TgBatchEnds ==
    poller = "tg" /\ pc = "batch" /\ pc' = "finally" /\ batch_ids # <<>>
\* the chat bot fetches with a cursor
TgFetchesAfterCursor ==
    poller = "tg" /\ pc = "top" /\ pc' = "batch" /\ last_update_id # None

\* C16 as claimed: after every fetched batch of the chat bot the cursor is the
\* largest update id of the batch, also when a write failed, and the next
\* fetch returns only update ids greater than the cursor.
C16_CursorIsBatchMax ==
    [][/\ TgBatchEnds => last_update_id' = MaxOf(Range(batch_ids))
       /\ TgFetchesAfterCursor =>
             \A id \in Range(batch_ids') : id > last_update_id]_vars

\* C16 as amended: after a batch whose loop ran to its end the cursor is the
\* largest update id of the batch, authorized or not; after a batch in which
\* a write failed the cursor is the id of the update whose write failed; the
\* next fetch returns only update ids greater than the cursor.
C16_CursorFollowsLoop ==
    [][/\ (TgBatchEnds /\ ev'.op # "write_fail") =>
             last_update_id' = MaxOf(Range(batch_ids))
       /\ (TgBatchEnds /\ ev'.op = "write_fail") =>
             (last_update_id' = ev'.id /\ ev'.id \in Range(batch_ids))
       /\ TgFetchesAfterCursor =>
             \A id \in Range(batch_ids') : id > last_update_id]_vars

\* a batch of two updates, the second from outside the allowlist, has been
\* processed to its end and the cursor is at the second
C16_Witness ==
    /\ poller = "tg"
    /\ pc = "finally"
    /\ ev.op = "save"
    /\ Len(inbox) = 2
    /\ Unlisted(2)
    /\ seen = {1, 2}
    /\ last_update_id = 2

\* C17: a fetch that fails changes neither the seen ledger, nor the cursor,
\* nor the state file, nor the printer connection.
C17_FailedFetchChangesNothing ==
    [][(LoopStep /\ pc = "top" /\ ev'.op = "fetch_fail") =>
         UNCHANGED <<seen_order, seen, last_update_id, STATE_FILE, printer>>]_vars

\* C18: no fetch is attempted after a failed fetch unless a delay step has
\* come between the two.
C18_DelayBeforeRefetch ==
    [][(LoopStep /\ pc = "top" /\ ev'.op \in {"fetch_ok", "fetch_fail"}) =>
         ~fetch_failed]_vars

\* C19: the printer is Disconnected when the loop starts; a successful open()
\* connects it; a failed open() leaves it Disconnected and the loop goes on,
\* through the backoff and the end of the cycle to the top, where its next
\* step is open() again.
C19_OpenOutcomes ==
    [][/\ (pc = "boot" /\ pc' = "top") => printer' = "None"
       /\ (LoopStep /\ pc = "top" /\ ev'.op = "open_ok") =>
             (printer = "None" /\ printer' = "Handle" /\ pc' = "top")
       /\ (LoopStep /\ pc = "top" /\ ev'.op = "open_fail") =>
             (printer = "None" /\ printer' = "None" /\ pc' = "backoff")
       /\ (LoopStep /\ pc = "backoff") =>
             (pc' = "finally" /\ printer' = "None")
       /\ (LoopStep /\ pc = "finally" /\ printer = "None") =>
             (pc' = "top" /\ printer' = "None")
       /\ (LoopStep /\ pc = "top" /\ printer = "None") =>
             ev'.op \in {"open_ok", "open_fail"}]_vars

\* open() failed, the loop came round, and open() has now succeeded
C19_Witness ==
    /\ ev.op = "open_ok"
    /\ ev.n = 1
    /\ pc = "top"
    /\ printer = "Handle"

\* C20: the step of the loop after a failed open() is the backoff, so that a
\* backoff lies between two failed open() attempts in a row; and a backoff
\* comes after nothing but a failed open(), never after a failed write.
C20_BackoffOnlyAfterFailedOpen ==
    [][/\ (LoopStep /\ ev.op = "open_fail") => ev'.op = "backoff"
       /\ (LoopStep /\ ev'.op = "backoff") => ev.op = "open_fail"
       /\ (LoopStep /\ ev.op = "write_fail") => ev'.op # "backoff"]_vars

\* the second of two failed open() attempts in a row, after a failed write
C20_Witness ==
    /\ ev.op = "open_fail"
    /\ ev.n = 1
    /\ pc = "backoff"
    /\ retry # 0

\* ------------------------------------------------- claims on the state file
\* the file holds an id array under this poller's key
Usable(p, f) == f.exists /\ f.form = "array" /\ f.key = StateKey(p)
PersistStep == pc = "ledger" /\ pc' = "saved"
ReloadStep == pc = "saved" /\ pc' = "ledger"

C12_PersistAtomic ==
    [][STATE_FILE' \in
          {STATE_FILE,
           _save_state(poller, seen_order, MAX_STATE),
           _save_state(poller, Evict(seen_order, MAX_STATE), MAX_STATE)}]_vars

\* C13: a persist by one poller leaves the id array that the other poller
\* has persisted in the same file as it was.
C13_OtherArrayKept ==
    [][PersistStep =>
         _load_state(Other(poller), STATE_FILE')
             = _load_state(Other(poller), STATE_FILE)]_vars

\* C15: load from a file that is absent, unparseable or without a usable id
\* array under the poller's key yields the empty ledger, and the loop starts.
C15_LoadNeverFails ==
    [][(pc = "boot" /\ ~Usable(poller, STATE_FILE)) =>
         (pc' = "ledger" /\ seen_order' = <<>> /\ seen' = {})]_vars

\* ------------------------------------------------ claims on the composer
\* C29: after any sequence of MessageComposer calls the message buffer holds
\* at most char_limit characters; add_character on a buffer at the limit
\* returns False and leaves the buffer as it was; delete_character on an empty
\* buffer returns False and leaves recipient, number and buffer as they were.
C29_BufferWithinLimit ==
    /\ [](Len(message_buffer) <= char_limit)
    /\ [][/\ (returned'.op = "add_character" /\ returned' # returned
                 /\ Len(message_buffer) >= char_limit)
              => (~returned'.value /\ message_buffer' = message_buffer)
          /\ (returned'.op = "delete_character" /\ returned' # returned
                 /\ message_buffer = <<>>)
              => (~returned'.value
                  /\ UNCHANGED <<message_buffer, selected_recipient,
                                 selected_number>>)]_vars

\* a buffer at a limit of two characters has just refused a third
C29_Witness ==
    /\ char_limit = 2
    /\ Len(message_buffer) = 2
    /\ returned.op = "add_character"
    /\ ~returned.value

\* C30: select_recipient_by_fkey with a key that map_fkeys_to_contacts has
\* mapped returns True, sets the recipient to the mapped name and the number
\* to that contact's number, and empties the message buffer; with any other
\* key it returns False and leaves recipient, number and buffer as they were.
C30_SelectByFKey ==
    [][(returned'.op = "select_recipient_by_fkey" /\ returned' # returned) =>
         IF returned'.arg \in DOMAIN fkey_map
         THEN /\ returned'.value
              /\ selected_recipient' = fkey_map[returned'.arg]
              /\ selected_number' = contacts[selected_recipient']
              /\ message_buffer' = <<>>
         ELSE /\ ~returned'.value
              /\ UNCHANGED <<selected_recipient, selected_number,
                             message_buffer>>]_vars

\* F2 has selected the second contact of the directory
C30_Witness ==
    /\ returned.op = "select_recipient_by_fkey"
    /\ returned.arg = "F2"
    /\ returned.value
    /\ selected_recipient = 2
    /\ message_buffer = <<>>

\* ------------------------------------------------- claims on _wrap_text
Wrapped == lines # <<>>
\* the source lines of the body: its paragraphs (a body without any
\* character is one empty line)
SourceLines == IF splitlines(body) = <<>> THEN 1 ELSE Len(splitlines(body))
LinesOf(k) == {i \in 1..Len(cuts) : cuts[i].para = k}
NoWord(p) == \A i \in 1..Len(p) : p[i] = " "
\* the last character of the word that holds position a of p
WordEnd(p, a) ==
    CHOOSE j \in a..Len(p) :
        /\ \A i \in (a + 1)..j : p[i] # " "
        /\ j = Len(p) \/ p[j + 1] = " "

\* C27: for every body and every width W >= 1 the lines _wrap_text returns
\* are the greedy wrap of each paragraph on its own, the paragraphs in their
\* order: no line is longer than W; every line is a piece of its paragraph as
\* it stands (nothing is inserted, so no hyphen), the pieces follow each other
\* and only spaces lie outside them; a line ends only where the word that
\* starts the next line would no longer fit; a paragraph without a word, and
\* so every empty source line, gives exactly one line, which is empty; and
\* "hello world foo" at width 10 gives "hello", "world foo".
C27_GreedyWrap ==
    Wrapped =>
        /\ \A i \in 1..Len(lines) : Len(lines[i]) <= LINE_WIDTH
        /\ \A i \in 1..(Len(cuts) - 1) :
              cuts[i].para <= cuts[i + 1].para
        /\ \A k \in 1..SourceLines :
              LET p == Paragraph(body, k)
              IN  /\ LinesOf(k) # {}
                  /\ \A i \in LinesOf(k) :
                        lines[i] = Slice(p, cuts[i].from, cuts[i].to)
                  /\ \A a \in 1..Len(p) :
                        (\A i \in LinesOf(k) : a < cuts[i].from \/ a > cuts[i].to)
                            => p[a] = " "
                  /\ \A i \in LinesOf(k) : (i + 1) \in LinesOf(k) =>
                        /\ cuts[i].to < cuts[i + 1].from
                        /\ WordEnd(p, cuts[i + 1].from) - cuts[i].from + 1
                               > LINE_WIDTH
                  /\ NoWord(p) <=> (\E i \in LinesOf(k) : lines[i] = <<>>)
                  /\ NoWord(p) => Cardinality(LinesOf(k)) = 1
        /\ (body = Example /\ LINE_WIDTH = 10) =>
              lines = << <<"h", "e", "l", "l", "o">>,
                         <<"w", "o", "r", "l", "d", " ", "f", "o", "o">> >>

\* a word, an empty line and two words that do not fit on one line together
C27_Witness ==
    /\ body = <<"x", "\n", "\n", "x", " ", "x">>
    /\ LINE_WIDTH = 2
    /\ lines = << <<"x">>, <<>>, <<"x">>, <<"x">> >>

\* ------------------------------------------------- claims on the receipt
Printed == receipt = "returned"
Sender == inbox[1].from_
Names == {"", "grandma", "nana", "uncle"}
\* an image block in full, and one that printer.image() cut short
FullBlock(which) == <<Set("center", ""), Blank, Text("image", <<which>>), Blank>>
StartedBlock == <<Set("center", ""), Blank>>
\* the body: the style and the wrapped lines (the chat bot adds a blank line,
\* and has no body at all for a message without text)
IsBody(b) ==
    \/ b = <<>> /\ poller = "tg"
    \/ /\ Len(b) >= 2
       /\ b[1] = Set("left", "normal")
       /\ \A i \in 2..Len(b) :
             \/ b[i].kind = "line"
             \/ i = Len(b) /\ i > 2 /\ poller = "tg" /\ b[i] = Blank
Layout(avatarFirst) ==
    \E a \in {<<>>, FullBlock("avatar"), StartedBlock},
       ph \in {<<>>, FullBlock("photo"), StartedBlock},
       end \in {Text("cut", <<>>), Text("feed", <<>>)},
       n \in Names, k \in 0..Len(directives) :
        LET from == <<Set("left", "bold"), From([name |-> n, id |-> Sender])>>
            upto == Heading \o (IF avatarFirst THEN a \o from ELSE from \o a)
        IN  /\ Len(upto) + k <= Len(directives)
            /\ IsBody(SubSeq(directives, Len(upto) + 1, Len(upto) + k))
            /\ directives = upto
                            \o SubSeq(directives, Len(upto) + 1, Len(upto) + k)
                            \o ph \o <<Blank, end>>

\* C25 as stated: every receipt is, in this order, the centered bold header,
\* the timestamp, the rule, the left-aligned bold sender label, the avatar
\* block if any, the body lines, the attachment block if any, a blank line and
\* the cut: the sender label comes before the avatar block.
C25_LabelBeforeAvatar == Printed => Layout(FALSE)

\* C25: every receipt is, in this order, the centered bold header, the
\* timestamp, the rule, the avatar block if any, the left-aligned bold sender
\* label, the body lines, the attachment block if any, a blank line and the
\* cut (three line feeds when the cut fails): the avatar block comes before
\* the sender label.
C25_AvatarBeforeLabel == Printed => Layout(TRUE)

\* a chat-bot receipt with avatar, text and photo
C25_Witness ==
    /\ Printed
    /\ poller = "tg"
    /\ body = <<"x", "u", " ", "x", "x">>
    /\ \E i, j \in 1..Len(directives) :
          /\ directives[i] = Text("image", <<"avatar">>)
          /\ directives[j] = Text("image", <<"photo">>)

ImageFailed ==
    \/ photo \in {"undownloaded", "unprocessable", "unprintable"}
    \/ /\ avatar_file \in {"unreadable", "unprintable"}
       /\ _extract_contact_name(CONTACTS, Sender) # ""
\* the image blocks that the receipt shows, whole or in part
BlocksBegun == Cardinality({i \in 1..Len(directives) :
                               directives[i] = Set("center", "")})
BlocksWhole == Cardinality({i \in 1..Len(directives) :
                               directives[i].kind = "image"})

\* C26: when the processing or the printing of the photo or of the avatar
\* fails, the receipt has nothing of that image block, it still ends with the
\* blank line and the cut (or the line feeds that replace a failed cut), and
\* the message is counted as printed: its id is appended to the ledger.
C26_FailedImageBlockOmitted ==
    (receipt # "none" /\ ImageFailed) =>
        /\ Printed
        /\ seen_order = <<1>> /\ seen = {1} /\ printed_now = 1
        /\ Len(directives) >= 2
        /\ directives[Len(directives) - 1] = Blank
        /\ directives[Len(directives)].kind \in {"cut", "feed"}
        /\ (photo # "ok") =>
              \A i \in 1..Len(directives) :
                  directives[i] # Text("image", <<"photo">>)
        /\ (avatar_file # "ok") =>
              \A i \in 1..Len(directives) :
                  directives[i] # Text("image", <<"avatar">>)
        /\ BlocksBegun = BlocksWhole

NameOf(id) == {CONTACTS[i][1] : i \in {j \in 1..Len(CONTACTS) : CONTACTS[j][2] = id}}
IsLabelOf(l, id) ==
    /\ l.id = id
    /\ IF NameOf(id) # {} THEN l.name \in NameOf(id) ELSE l.name = ""

\* C28: the label of a sender is "name (id)" for a name that CONTACTS stores
\* with the id, and the id alone when no name is stored with it, on the
\* receipt and in last_sender; resolving it changes neither CONTACTS nor the
\* ledger, the state file, the printer handle or what the printer was sent.
C28_LabelIsReverseLookup ==
    /\ [](\A i \in 1..Len(directives) :
             directives[i].kind = "from" => IsLabelOf(directives[i].label, Sender))
    /\ [](last_sender # NoLabel => IsLabelOf(last_sender, Sender))
    /\ [][sender_label' # sender_label =>
             /\ IsLabelOf(sender_label', Sender)
             /\ UNCHANGED <<CONTACTS, seen_order, seen, STATE_FILE, printer,
                            directives, last_sender>>]_vars
    /\ [][UNCHANGED CONTACTS]_vars

\* a sender stored under two names has been given the first of them
C28_Witness ==
    /\ CONTACTS = << <<"grandma", 1>>, <<"nana", 1>> >>
    /\ sender_label = [name |-> "grandma", id |-> 1]
    /\ last_sender = sender_label

\* ---------------------------------------------- claims on the poll cycle
Ascending(s) == \A i \in 1..(Len(s) - 1) : s[i] < s[i + 1]

\* C24: the receipts of a batch are written in the order of the batch, and
\* the batch is oldest first (ids number the messages as they arrived): the
\* messages still to come are the tail of the batch as fetched, and a receipt
\* just written is that of the message right before them.  For SMS this is
\* the newest-first window of the source reversed, for the chat bot the
\* updates as they came.
C24_BatchOrderOldestFirst ==
    pc = "batch" =>
        /\ Ascending(batch_ids)
        /\ Len(new_messages) <= Len(batch_ids)
        /\ Ids(new_messages) = SubSeq(batch_ids,
                                      Len(batch_ids) - Len(new_messages) + 1,
                                      Len(batch_ids))
        /\ ev.op \in {"write_ok", "retry_ok"} =>
              ev.id = batch_ids[Len(batch_ids) - Len(new_messages)]

\* an SMS batch of two, both receipts written, the older one first
C24_Witness ==
    /\ poller = "sms"
    /\ pc = "batch"
    /\ batch_ids = <<1, 2>>
    /\ new_messages = <<>>
    /\ ev = [op |-> "write_ok", id |-> 2, n |-> 0]
    /\ seen_order = <<1, 2>>

\* ---------------------------------------------- claims on the cycle's stages
Logged(name) == {i \in DOMAIN stages : stages[i].stage = name}
DisplayCalls ==
    Logged("display") \cup Logged("display_failed") \cup Logged("display_off")
WritesBefore(i) == {j \in 1..(i - 1) : stages[j].stage = "write"}

\* C21: render_polling_status is called at most once in a poll cycle and only
\* after at least one receipt was printed in it; the count passed is the
\* number of successful writes of the cycle and the label is that of the
\* sender of the last message printed in it.
C21_DisplayOncePerCycle ==
    /\ Cardinality(DisplayCalls) <= 1
    /\ \A i \in DisplayCalls :
          /\ WritesBefore(i) # {}
          /\ displayed.count = Cardinality(WritesBefore(i))
          /\ IsLabelOf(displayed.label,
                       inbox[stages[MaxOf(WritesBefore(i))].id].from_)
C21_Witness ==
    /\ Logged("display") # {}
    /\ displayed.count = 2
    /\ displayed.label.name = "grandma"

\* C22: a failure inside the status display update does not abort the
\* cycle: the printer handle is kept, and the cycle goes on to evict the
\* ledger to MAX_STATE entries and to write it to the state file.
C22_DisplayFailureSwallowed ==
    \A i \in Logged("display_failed") :
        /\ printer = "Handle"
        /\ pc \in {"save", "finally", "top", "exited"}
        /\ pc # "save" =>
              /\ i < Len(stages)
              /\ stages[i + 1].stage = "save"
              /\ Len(seen_order) <= MAX_STATE
              /\ STATE_FILE = _save_state(poller, seen_order, MAX_STATE)
C22_Witness ==
    /\ Logged("display_failed") # {}
    /\ pc = "finally"
    /\ Cardinality(Logged("append")) = 2
    /\ MAX_STATE = 1
    /\ STATE_FILE.ids = <<2>>

MessageStages == SelectSeq(stages, LAMBDA e : e.id # 0)
FirstStages == {"skip", "no_message", "reject", "authorize"}
LastStages == {"skip", "no_message", "reject", "append"}
Place(id) == CHOOSE k \in DOMAIN batch_ids : batch_ids[k] = id
\* the stages of each message follow each other (authorize, write, append),
\* the messages follow each other in batch order, only authorized messages
\* are written, and nothing follows a failed write
StagesInSequence ==
    LET log == MessageStages
    IN  /\ \A k \in DOMAIN log :
              /\ log[k].id \in Range(batch_ids)
              /\ log[k].stage \in {"authorize", "write", "write_failed", "append"}
                    => _should_print(inbox[log[k].id].from_)
              /\ log[k].stage = "reject" => ~_should_print(inbox[log[k].id].from_)
        /\ log # <<>> => log[1].stage \in FirstStages /\ Place(log[1].id) = 1
        /\ \A k \in 1..(Len(log) - 1) :
              IF log[k].id = log[k + 1].id
              THEN <<log[k].stage, log[k + 1].stage>> \in
                       {<<"authorize", "write">>, <<"authorize", "write_failed">>,
                        <<"write", "append">>}
              ELSE /\ log[k].stage \in LastStages
                   /\ log[k + 1].stage \in FirstStages
                   /\ Place(log[k + 1].id) = Place(log[k].id) + 1
\* the write logged at i comes after the last stage of the last message
AfterTheBatch(i) ==
    /\ \A j \in DOMAIN stages : stages[j].id # 0 => j < i
    /\ Cardinality({j \in 1..(i - 1) : stages[j].stage \in LastStages})
          = Len(batch_ids)

\* C23 as stated: the stages run in sequence per message in batch order, and
\* the state file is written at most once in a poll cycle and only after the
\* last message of the batch has been processed.
C23_OneWritePerCycle ==
    /\ StagesInSequence
    /\ Cardinality(Logged("save") \cup Logged("interrupt_save")) <= 1
    /\ \A i \in Logged("save") \cup Logged("interrupt_save") : AfterTheBatch(i)

\* C23, amended: the stages run in sequence per message in batch order; the
\* loop writes the state file at most once in a poll cycle and only after
\* the last message of the batch has been processed; the one other write is
\* that of the SMS poller's interrupt handler, the last thing the process does.
C23_OneLoopWritePerCycle ==
    /\ StagesInSequence
    /\ Cardinality(Logged("save")) <= 1
    /\ \A i \in Logged("save") : AfterTheBatch(i)
    /\ \A i \in Logged("interrupt_save") : i = Len(stages) /\ pc = "exited"
C23_Witness ==
    /\ Ids(MessageStages) = <<1, 2, 2, 2>>
    /\ Logged("reject") = {1}
    /\ Logged("save") # {}
    /\ Logged("interrupt_save") # {}

\* ------------------------------------------- claims on the allowlist setting
\* C36: permit-all mode is entered only when the ALLOWLIST setting names no
\* sender: when it names at least one, no receipt is written, or attempted,
\* for a message whose sender the setting does not name, whatever the form
\* of the id (a group chat's id is negative).
C36_PermitAllOnlyWhenEmpty ==
    allowlist_env # {} =>
        /\ \A id \in written : inbox[id].from_ \in allowlist_env
        /\ Wrote => inbox[ev.id].from_ \in allowlist_env

\* ------------------------------------------ claims on the Disconnected state
Disconnected ==
    printer = "None" /\ pc \in {"top", "backoff", "finally", "unwinding"}
ProcessStep ==
    ev' # ev /\ ev'.op \notin {"crash", "crash_in_batch", "restart"}
BatchWork ==
    {"fetch_ok", "fetch_fail", "skip_seen", "no_message", "reject", "write_ok",
     "retry_ok", "write_fail", "save", "idle"}
\* without a handle the process fetches nothing, handles no message and
\* keeps ledger and cursor; writes go to a handle that open() returned
QuietWhileDisconnected ==
    /\ (ProcessStep /\ Disconnected) =>
          /\ ev'.op \notin BatchWork
          /\ pc' # "exited" =>
                /\ seen_order' = seen_order
                /\ seen' = seen
                /\ last_update_id' = last_update_id
    /\ (ev' # ev /\ ev'.op \in {"write_ok", "retry_ok", "write_fail"}) =>
          printer = "Handle"
    /\ (printer = "None" /\ printer' = "Handle") => ev'.op = "open_ok"

\* C37 as stated: while the printer is Disconnected no fetch is issued, no
\* message is authorized, rejected or written, and the seen ledger, the
\* cursor and the state file do not change; a write is only attempted on a
\* handle obtained from a successful open().
C37_NothingWhileDisconnected ==
    [][/\ QuietWhileDisconnected
       /\ (ProcessStep /\ Disconnected) => STATE_FILE' = STATE_FILE]_vars

\* C37, amended: as stated, but for the state file: the SMS poller's
\* interrupt handler writes the ledger to it when the sleep at the end of a
\* cycle is interrupted, also while the printer is Disconnected.
C37_QuietWhileDisconnected ==
    [][/\ QuietWhileDisconnected
       /\ (ProcessStep /\ Disconnected) =>
             IF ev'.op = "interrupt_save"
             THEN STATE_FILE' = _save_state(poller, seen_order, MAX_STATE)
             ELSE STATE_FILE' = STATE_FILE]_vars
\* a receipt was written, the next write failed, open() failed, and the
\* process waits in the backoff with a message at the source
C37_Witness ==
    /\ pc = "backoff"
    /\ printer = "None"
    /\ seen_order # <<>>
    /\ Len(inbox) > Len(seen_order)
    /\ retry # 0

\* ------------------------------------------------ claims on the end of a cycle
\* C38: at the end of every poll cycle that completes without an exception
\* the id array of the state file equals the seen sequence in memory (an
\* absent file counting as empty).
C38_FileEqualsLedgerAtCycleEnd ==
    ev.op \in {"save", "idle"} => FileIds = seen_order

\* ------------------------------------------------------ claims on get_printer
\* the backend can be connected to: the dummy needs no connection, the others
\* need a known driver and a device that answers
Connects ==
    \/ _printer_backend(PRINTER_DRIVER) = "dummy"
    \/ BackendOf(_printer_backend(PRINTER_DRIVER)) # "" /\ device = "up"
OpenStep == pc = "top" /\ printer = "None" /\ ev' # ev

\* C35: get_printer returns no handle exactly when connecting to the
\* configured backend fails and the dummy fallback flag is off; with the flag
\* on, or with the dummy driver configured, it always returns a handle, and
\* the poll loop never enters the backoff of a failed open().
C35_NoHandleIffFailedWithoutFallback ==
    /\ [][OpenStep =>
            /\ (opened' = "None") <=> (~Connects /\ ~ALLOW_DUMMY)
            /\ (printer' = "None") <=> (opened' = "None")
            /\ (pc' = "backoff") <=> (opened' = "None")]_vars
    /\ []((ALLOW_DUMMY \/ _printer_backend(PRINTER_DRIVER) = "dummy") =>
            /\ pc # "backoff"
            /\ ev.op # "open_fail"
            /\ (pc # "boot" /\ printer = "Handle") => opened # "None")
\* the network printer does not answer, the flag is on: the loop has a dummy
\* printer and has printed the message on it
C35_Witness ==
    /\ PRINTER_DRIVER = "Network"
    /\ ALLOW_DUMMY
    /\ device = "down"
    /\ opened = "DummyPrinter"
    /\ printer = "Handle"
    /\ written = {1}

\* ----------------------------------------------- claims on interactive_loop
Sends == outbox' # outbox
LastSent == outbox'[Len(outbox')]

\* C31: for every sequence of key events a message is sent only when a
\* recipient is selected and the buffer is non-empty, it is sent to the
\* number of the selected recipient, and characters typed while no recipient
\* is selected never enter the buffer.
C31_SendsOnlyWhenReady ==
    /\ [][Sends =>
            /\ selected_recipient # None
            /\ message_buffer # <<>>
            /\ outbox' = Append(outbox, LastSent)
            /\ LastSent.name = selected_recipient
            /\ LastSent.number = selected_number
            /\ LastSent.number = contacts[selected_recipient]
            /\ LastSent.text = message_buffer]_vars
    /\ [][selected_recipient = None /\ key' = "char" =>
            message_buffer' = message_buffer]_vars
    /\ [](selected_recipient = None => message_buffer = <<>>)
\* a character was typed before a recipient was selected; then F2, a
\* character, Enter
C31_Witness ==
    /\ Len(outbox) = 1
    /\ outbox[1].name = 2
    /\ outbox[1].number = 5552
    /\ outbox[1].text = <<"b">>
    /\ key = "enter"
    /\ DOMAIN contacts = {1, 2}

\* C32: after every send attempt that Enter triggers, whether send_sms
\* returned True or False, the composer is reset (no recipient, no number,
\* empty buffer) and the contact list is asked for again; no message is
\* handed to send_sms twice.
C32_ResetAfterEverySend ==
    /\ [][Sends =>
            /\ key' = "enter"
            /\ selected_recipient' = None
            /\ selected_number' = None
            /\ message_buffer' = <<>>
            /\ screen' = "contacts"
            /\ listening']_vars
    /\ [](\A i \in DOMAIN outbox : ~outbox[i].again)
    /\ [](dispatched = FALSE)
\* two sends, the first failed, the second succeeded
C32_Witness ==
    /\ Len(outbox) = 2
    /\ ~outbox[1].sent
    /\ outbox[2].sent
    /\ selected_recipient = None
    /\ message_buffer = <<>>
    /\ screen = "contacts"

\* ------------------------------------------- claims on the admin's requests
Directory_ == get_contacts_from_env(env_file)
NumbersOf(c) == {c[i][2] : i \in DOMAIN c}

\* C33: starting from at most 12 contacts, after any sequence of add, edit
\* and delete contact requests the contact directory holds at most 12
\* entries; an add request at 12 contacts is rejected and leaves the .env
\* file unchanged.
C33_AtMostTwelveContacts ==
    /\ [](Len(Directory_) <= 12)
    /\ [][(response'.op = "add" /\ Len(Directory_) >= 12) =>
             /\ response'.status = 400
             /\ env_file' = env_file]_vars
\* a thirteenth contact with a new name and a new number was refused
C33_Witness ==
    /\ response = [op |-> "add", status |-> 400, error |-> "limit",
                   contacts |-> <<>>, allowlist |-> {}]
    /\ Len(Directory_) = 12
    /\ \A i \in DOMAIN env_file : env_file[i].key # "CONTACTS "

\* the lines that are neither a CONTACTS= nor an ALLOWLIST= line, without
\* the blank line that comes with an appended CONTACTS= line
OtherLines(file) ==
    LET others == SelectSeq(file, LAMBDA l : l.key \notin {"CONTACTS", "ALLOWLIST", ""})
    IN  [i \in DOMAIN others |-> <<others[i].key, others[i].value>>]

\* C34: save_env_config replaces only the CONTACTS= and ALLOWLIST= lines
\* (appending them when absent) and keeps every other line of the .env file,
\* in order; get_contacts_from_env and get_allowlist_from_env then return
\* exactly the contacts and the allowlist that were saved.
C34_SaveKeepsOtherLinesAndReadsBack ==
    /\ [][response'.status = 200 => OtherLines(env_file') = OtherLines(env_file)]_vars
    /\ [](response.status = 200 =>
             /\ get_contacts_from_env(env_file) = response.contacts
             /\ get_allowlist_from_env(env_file) = response.allowlist)

\* C39: after any sequence of add, edit and delete contact requests starting
\* from a directory in which all numbers are distinct, no two contact names
\* map to the same number.
C39_NumbersStayDistinct ==
    Cardinality(NumbersOf(Directory_)) = Len(Directory_)

====
